---- MODULE Spec2Model ----
(***************************************************************************)
(* Model of the autoscaler v2 control core:                                *)
(*   - ResourceDemandScheduler.schedule (python/ray/autoscaler/v2/         *)
(*     scheduler.py), one step per phase of schedule();                    *)
(*   - Reconciler.sync_from (python/ray/autoscaler/v2/instance_manager/    *)
(*     reconciler.py), one step per pass.                                  *)
(* Python dicts are functions whose DOMAIN is the set of keys, Optional    *)
(* values are <<>> (None) or <<x>>, lists are sequences.  Resource         *)
(* quantities are naturals; utilizations are exact fractions <<num, den>>  *)
(* (the code uses floats).                                                 *)
(***************************************************************************)
EXTENDS Integers, Sequences, FiniteSets, TLC

None == <<>>
Some(x) == <<x>>
IsNone(o) == o = <<>>

\* dict.get(k, 0)
Get(d, k) == IF k \in DOMAIN d THEN d[k] ELSE 0

EmptyDict == <<>>

Range(s) == {s[i] : i \in DOMAIN s}

RECURSIVE SumOver(_, _)
SumOver(d, keys) ==
    IF keys = {} THEN 0
    ELSE LET k == CHOOSE x \in keys : TRUE
         IN d[k] + SumOver(d, keys \ {k})

\* sum(d.values())
SumValues(d) == SumOver(d, DOMAIN d)

RECURSIVE SeqSum(_)
SeqSum(s) == IF s = <<>> THEN 0 ELSE Head(s) + SeqSum(Tail(s))

RemoveAt(s, i) == [j \in 1..(Len(s) - 1) |-> IF j < i THEN s[j] ELSE s[j + 1]]

\* n copies of x
Repeat(x, n) == [j \in 1..n |-> x]

\* list.sort(key=...) / sorted(...): a stable sort; Before(a, b) says that the
\* key of a orders strictly before the key of b (for reverse=True, that the key
\* of a is strictly greater).  Elements with equal keys keep their order.
StableSort(s, Before(_, _)) ==
    LET n == Len(s)
        pos(i) == Cardinality({j \in 1..n : Before(s[j], s[i])})
                  + Cardinality({j \in 1..i : ~Before(s[j], s[i]) /\ ~Before(s[i], s[j])})
    IN [p \in 1..n |-> s[CHOOSE i \in 1..n : pos(i) = p]]

\* Python's tuple/list order on sequences of integers
LexLess(a, b) ==
    \/ \E k \in 1..Len(a) : /\ k <= Len(b)
                            /\ a[k] < b[k]
                            /\ \A j \in 1..(k - 1) : a[j] = b[j]
    \/ /\ Len(a) < Len(b)
       /\ \A j \in 1..Len(a) : a[j] = b[j]

\* fractions <<num, den>> with den > 0
FracLess(x, y) == x[1] * y[2] < y[1] * x[2]
FracEq(x, y) == x[1] * y[2] = y[1] * x[2]
FracAdd(x, y) == <<x[1] * y[2] + y[1] * x[2], x[2] * y[2]>>

RECURSIVE FracSum(_, _)
FracSum(f, keys) ==
    IF keys = {} THEN <<0, 1>>
    ELSE LET k == CHOOSE x \in keys : TRUE
         IN FracAdd(f[k], FracSum(f, keys \ {k}))

FracMin(f, keys) == f[CHOOSE k \in keys : \A j \in keys : ~FracLess(f[j], f[k])]

(***************************************************************************)
(* SchedulingNode                                                          *)
(***************************************************************************)

\* AUTOSCALER_CONSERVE_GPU_NODES (ray.autoscaler._private.constants, default on)
AUTOSCALER_CONSERVE_GPU_NODES == TRUE

\* A scheduling node.  ref models object identity: list entries with the same
\* ref > 0 are one Python object (see _enforce_min_workers_per_type), entries
\* with ref = 0 are objects of their own.
NewSchedulingNode(node_type, total, available, for_constraints, labels, status, im_instance_id, ray_node_id, idle_duration_ms, launch_config_hash) ==
    [node_type |-> node_type,
     sched_constraints |-> <<>>,
     sched_requests |-> <<>>,
     total_resources |-> total,
     available_resources |-> available,
     available_resources_for_constraints |-> for_constraints,
     labels |-> labels,
     status |-> status,
     termination_request |-> None,
     im_instance_id |-> im_instance_id,
     ray_node_id |-> ray_node_id,
     idle_duration_ms |-> idle_duration_ms,
     launch_config_hash |-> launch_config_hash,
     ref |-> 0]

\* SchedulingNode.from_node_config
from_node_config(node_config, status, im_instance_id) ==
    NewSchedulingNode(node_config.name, node_config.resources, node_config.resources,
                      node_config.resources, node_config.labels, status,
                      im_instance_id, 0, 0, "")

\* SchedulingNode._add_label: [labels, raised]; the assertion fails when the
\* label is present with another value.
add_label(labels, label_name, label_value) ==
    IF label_name \in DOMAIN labels /\ labels[label_name] # label_value
    THEN [labels |-> labels, raised |-> TRUE]
    ELSE [labels |-> [n \in DOMAIN labels \cup {label_name} |->
                         IF n = label_name THEN label_value ELSE labels[n]],
          raised |-> FALSE]

RECURSIVE add_labels(_, _)
add_labels(labels, constraints) ==
    IF constraints = <<>> THEN [labels |-> labels, raised |-> FALSE]
    ELSE LET c == Head(constraints)
             one == add_label(labels, c.label_name, c.label_value)
         IN IF one.raised THEN one ELSE add_labels(one.labels, Tail(constraints))

AntiAffinityViolated_never(node, request) == FALSE

\* the anti-affinity check at the head of _try_schedule_one
AntiAffinityViolated(node, request) ==
    \E i \in DOMAIN request.placement_constraints :
        LET c == request.placement_constraints[i]
        IN /\ c.kind = "anti_affinity"
           /\ c.label_name \in DOMAIN node.labels
           /\ node.labels[c.label_name] = c.label_value

EnoughResources_always(avail, bundle) == TRUE

\* the resource check of _try_schedule_one against the pool `avail`
EnoughResources(avail, bundle) ==
    \A k \in DOMAIN bundle : ~(Get(avail, k) < bundle[k])

\* _try_schedule_one with one pool for constraints and requests
try_schedule_one_one_pool(node, request, is_constraint) ==
    LET avail == node.available_resources
        bundle == request.resources_bundle
    IN IF AntiAffinityViolated(node, request) \/ ~EnoughResources(avail, bundle)
       THEN [ok |-> FALSE, node |-> node, raised |-> FALSE]
       ELSE IF \E k \in DOMAIN bundle : k \notin DOMAIN avail
       THEN [ok |-> FALSE, node |-> node, raised |-> TRUE]
       ELSE LET newAvail == [k \in DOMAIN avail |-> avail[k] - Get(bundle, k)]
                n1 == IF ~is_constraint
                      THEN [node EXCEPT !.available_resources = newAvail,
                                        !.sched_requests = Append(@, request)]
                      ELSE [node EXCEPT !.available_resources = newAvail,
                                        !.sched_constraints = Append(@, request)]
                labelled(lab) == [ok |-> ~lab.raised,
                                  node |-> [n1 EXCEPT !.labels = lab.labels],
                                  raised |-> lab.raised]
            IN labelled(add_labels(node.labels, request.placement_constraints))

\* SchedulingNode._try_schedule_one: [ok, node, raised].  raised is an exception
\* leaving the method: the KeyError of `avail[k] -= v` for a key the pool does
\* not have, or the assertion of _add_label.
try_schedule_one(node, request, is_constraint) ==
    LET avail == IF ~is_constraint THEN node.available_resources
                 ELSE node.available_resources_for_constraints
        bundle == request.resources_bundle
    IN IF AntiAffinityViolated(node, request) \/ ~EnoughResources(avail, bundle)
       THEN [ok |-> FALSE, node |-> node, raised |-> FALSE]
       ELSE IF \E k \in DOMAIN bundle : k \notin DOMAIN avail
       THEN [ok |-> FALSE, node |-> node, raised |-> TRUE]
       ELSE LET newAvail == [k \in DOMAIN avail |-> avail[k] - Get(bundle, k)]
                n1 == IF ~is_constraint
                      THEN [node EXCEPT !.available_resources = newAvail,
                                        !.sched_requests = Append(@, request)]
                      ELSE [node EXCEPT !.available_resources_for_constraints = newAvail,
                                        !.sched_constraints = Append(@, request)]
                labelled(lab) == [ok |-> ~lab.raised,
                                  node |-> [n1 EXCEPT !.labels = lab.labels],
                                  raised |-> lab.raised]
            IN labelled(add_labels(node.labels, request.placement_constraints))

\* per-resource utilization of _compute_score: resources with a non-zero total
\* that the available dict has
ScoreUtilKeys(node) ==
    {k \in DOMAIN node.total_resources :
        node.total_resources[k] # 0 /\ k \in DOMAIN node.available_resources}

Util(node, k) ==
    <<node.total_resources[k] - Get(node.available_resources, k), node.total_resources[k]>>

num_matching_resource_types(node) ==
    SeqSum([i \in DOMAIN node.sched_requests |->
              Cardinality({k \in DOMAIN node.sched_requests[i].resources_bundle :
                              k \in DOMAIN node.total_resources})])

gpu_ok_off(node) == TRUE

gpu_ok(node) ==
    IF AUTOSCALER_CONSERVE_GPU_NODES
    THEN LET is_gpu_node == Get(node.total_resources, "GPU") > 0
             any_gpu_requests == \E i \in DOMAIN node.sched_requests :
                                    "GPU" \in DOMAIN node.sched_requests[i].resources_bundle
         IN ~(is_gpu_node /\ ~any_gpu_requests)
    ELSE TRUE

\* SchedulingNode._compute_score: [gpu_ok, num, min_util, avg_util, raised];
\* raised is the failed assertion 0 <= util <= 1.
compute_score(node) ==
    LET keys == ScoreUtilKeys(node)
        utils == [k \in keys |-> Util(node, k)]
        n == Cardinality(keys)
        total == FracSum(utils, keys)
    IN [gpu_ok |-> gpu_ok(node),
        num |-> num_matching_resource_types(node),
        min_util |-> IF keys = {} THEN <<0, 1>> ELSE FracMin(utils, keys),
        avg_util |-> IF keys = {} THEN <<0, 1>> ELSE <<total[1], total[2] * n>>,
        raised |-> \E k \in keys : utils[k][1] < 0 \/ utils[k][1] > utils[k][2]]

\* the order of UtilizationScore tuples: a < b
ScoreLess(a, b) ==
    \/ ~a.gpu_ok /\ b.gpu_ok
    \/ /\ a.gpu_ok = b.gpu_ok
       /\ \/ a.num < b.num
          \/ /\ a.num = b.num
             /\ \/ FracLess(a.min_util, b.min_util)
                \/ /\ FracEq(a.min_util, b.min_util)
                   /\ FracLess(a.avg_util, b.avg_util)

RECURSIVE try_schedule_loop(_, _, _, _)
try_schedule_loop(node, requests, is_constraint, unschedulable_requests) ==
    IF requests = <<>>
    THEN [node |-> node, unschedulable_requests |-> unschedulable_requests, raised |-> FALSE]
    ELSE LET rest(one) ==
                 IF one.raised
                 THEN [node |-> one.node, unschedulable_requests |-> unschedulable_requests,
                       raised |-> TRUE]
                 ELSE try_schedule_loop(one.node, Tail(requests), is_constraint,
                                        IF one.ok THEN unschedulable_requests
                                        ELSE Append(unschedulable_requests, Head(requests)))
         IN rest(try_schedule_one(node, Head(requests), is_constraint))

\* SchedulingNode.try_schedule: the node after the attempt, the requests it could
\* not take, and its score
try_schedule(node, requests, is_constraint) ==
    LET scored(t, score) == [node |-> t.node,
                             unschedulable_requests |-> t.unschedulable_requests,
                             score |-> score,
                             raised |-> t.raised \/ score.raised]
        tried(t) == scored(t, compute_score(t.node))
    IN tried(try_schedule_loop(node, requests, is_constraint, <<>>))

(***************************************************************************)
(* The bin-packer                                                          *)
(***************************************************************************)

\* the resource names in sorted order, for sorted(bundle.items())
ResourceNames == <<"CPU", "GPU">>

RECURSIVE ItemsKey(_, _)
ItemsKey(bundle, i) ==
    IF i > Len(ResourceNames) THEN <<>>
    ELSE (IF ResourceNames[i] \in DOMAIN bundle
          THEN <<i, bundle[ResourceNames[i]]>> ELSE <<>>) \o ItemsKey(bundle, i + 1)

\* _try_schedule._sort_resource_request
sort_resource_request(req) ==
    <<Len(req.placement_constraints),
      Cardinality(DOMAIN req.resources_bundle),
      SumValues(req.resources_bundle)>> \o ItemsKey(req.resources_bundle, 1)

RequestBefore(a, b) == LexLess(sort_resource_request(b), sort_resource_request(a))

\* sorted(requests_to_sched, key=_sort_resource_request, reverse=True)
SortRequests(requests) == StableSort(requests, RequestBefore)

\* writing the object at index idx: every entry that is the same object changes
WriteNode(nodes, idx, node) ==
    [j \in DOMAIN nodes |->
        IF j = idx \/ (nodes[idx].ref > 0 /\ nodes[j].ref = nodes[idx].ref)
        THEN node ELSE nodes[j]]

\* the loop of _sched_best_node over enumerate(nodes_copy)
RECURSIVE best_node_loop(_, _, _, _, _)
best_node_loop(nodes_copy, idx, requests, is_constraint, results) ==
    IF idx > Len(nodes_copy)
    THEN [nodes_copy |-> nodes_copy, results |-> results, raised |-> FALSE]
    ELSE LET rest(t) ==
                 LET written == WriteNode(nodes_copy, idx, t.node)
                 IN IF t.raised
                    THEN [nodes_copy |-> written, results |-> results, raised |-> TRUE]
                    ELSE best_node_loop(written, idx + 1, requests, is_constraint,
                             IF Len(t.unschedulable_requests) = Len(requests) THEN results
                             ELSE Append(results,
                                         [idx |-> idx,
                                          infeasible_requests |-> t.unschedulable_requests,
                                          score |-> t.score]))
         IN rest(try_schedule(nodes_copy[idx], requests, is_constraint))

ResultBefore(a, b) == ScoreLess(b.score, a.score)

\* sorted(results, key=lambda r: r.score, reverse=True)[0]
BestResult(results) == StableSort(results, ResultBefore)[1]

\* ResourceDemandScheduler._sched_best_node: [best_node, requests, nodes, raised];
\* best_node is None when no node takes any request.  The best node is an object
\* of the deep copy, so it is no longer the same object as any entry of nodes.
sched_best_node(requests, nodes, is_constraint) ==
    LET taken(l, best_result) ==
            [best_node |-> Some([l.nodes_copy[best_result.idx] EXCEPT !.ref = 0]),
             requests |-> best_result.infeasible_requests,
             nodes |-> RemoveAt(nodes, best_result.idx),
             raised |-> FALSE]
        best(l) ==
            IF l.raised
            THEN [best_node |-> None, requests |-> requests, nodes |-> nodes, raised |-> TRUE]
            ELSE IF l.results = <<>>
            THEN [best_node |-> None, requests |-> requests, nodes |-> nodes, raised |-> FALSE]
            ELSE taken(l, BestResult(l.results))
    IN best(best_node_loop(nodes, 1, requests, is_constraint, <<>>))

(***************************************************************************)
(* ScheduleContext.  node_type_configs is the dict of NodeTypeConfig in its *)
(* iteration order, as a sequence of configs.                               *)
(***************************************************************************)

ConfigNames(node_type_configs) == {node_type_configs[i].name : i \in DOMAIN node_type_configs}

\* node_type_configs.get(node_type): None or the config
GetConfig(node_type_configs, node_type) ==
    IF node_type \in ConfigNames(node_type_configs)
    THEN Some(node_type_configs[CHOOSE i \in DOMAIN node_type_configs :
                                   node_type_configs[i].name = node_type])
    ELSE None

CountOfType(nodes, node_type) ==
    Cardinality({i \in DOMAIN nodes : nodes[i].node_type = node_type})

\* a bug of _compute_available_node_types: the nodes there are do not count
compute_available_node_types_uncounted(nodes, node_type_configs) ==
    [t \in ConfigNames(node_type_configs) |->
        GetConfig(node_type_configs, t)[1].max_worker_nodes]

\* ScheduleContext._compute_available_node_types: every node of the type counts,
\* whatever its status
compute_available_node_types(nodes, node_type_configs) ==
    [t \in ConfigNames(node_type_configs) |->
        GetConfig(node_type_configs, t)[1].max_worker_nodes - CountOfType(nodes, t)]

\* ScheduleContext.get_cluster_shape, for one type
cluster_shape(nodes, node_type) ==
    Cardinality({i \in DOMAIN nodes :
                    nodes[i].node_type = node_type /\ nodes[i].status # "TO_TERMINATE"})

\* the loop of _try_schedule over the existing nodes
RECURSIVE existing_nodes_loop(_, _, _, _)
existing_nodes_loop(requests_to_sched, existing_nodes, target_nodes, is_constraint) ==
    IF requests_to_sched = <<>> \/ existing_nodes = <<>>
    THEN [requests_to_sched |-> requests_to_sched, existing_nodes |-> existing_nodes,
          target_nodes |-> target_nodes, raised |-> FALSE]
    ELSE LET rest(b) ==
                 IF b.raised \/ IsNone(b.best_node)
                 THEN [requests_to_sched |-> requests_to_sched,
                       existing_nodes |-> existing_nodes,
                       target_nodes |-> target_nodes, raised |-> b.raised]
                 ELSE existing_nodes_loop(b.requests, b.nodes,
                                          Append(target_nodes, b.best_node[1]), is_constraint)
         IN rest(sched_best_node(requests_to_sched, existing_nodes, is_constraint))

\* the initial node_pools of _try_schedule: one fresh node per type that may
\* still be launched, in the order of the configs
RECURSIVE initial_node_pools(_, _, _)
initial_node_pools(node_type_configs, node_type_available, i) ==
    IF i > Len(node_type_configs) THEN <<>>
    ELSE (IF node_type_available[node_type_configs[i].name] > 0
          THEN <<from_node_config(node_type_configs[i], "TO_LAUNCH", 0)>>
          ELSE <<>>) \o initial_node_pools(node_type_configs, node_type_available, i + 1)

\* the test that stops launching in _try_schedule
MaxNumNodesReached(max_num_nodes, target_nodes) ==
    ~IsNone(max_num_nodes) /\ Len(target_nodes) >= max_num_nodes[1]

\* the loop of _try_schedule over the nodes that can be launched
RECURSIVE new_nodes_loop(_, _, _, _, _, _, _)
new_nodes_loop(requests_to_sched, node_pools, target_nodes, node_type_available, node_type_configs, max_num_nodes, is_constraint) ==
    IF requests_to_sched = <<>> \/ node_pools = <<>>
       \/ MaxNumNodesReached(max_num_nodes, target_nodes)
    THEN [requests_to_sched |-> requests_to_sched, target_nodes |-> target_nodes,
          raised |-> FALSE]
    ELSE LET rest(b) ==
                 IF b.raised \/ IsNone(b.best_node)
                 THEN [requests_to_sched |-> requests_to_sched, target_nodes |-> target_nodes,
                       raised |-> b.raised]
                 ELSE LET best_node == b.best_node[1]
                          available == [node_type_available EXCEPT
                                           ![best_node.node_type] = @ - 1]
                          pools == IF available[best_node.node_type] > 0
                                   THEN Append(b.nodes,
                                               from_node_config(
                                                   GetConfig(node_type_configs,
                                                             best_node.node_type)[1],
                                                   "TO_LAUNCH", 0))
                                   ELSE b.nodes
                      IN new_nodes_loop(b.requests, pools, Append(target_nodes, best_node),
                                        available, node_type_configs, max_num_nodes,
                                        is_constraint)
         IN rest(sched_best_node(requests_to_sched, node_pools, is_constraint))

\* ResourceDemandScheduler._try_schedule: [target_nodes, infeasible, raised]
TrySchedule(nodes, node_type_configs, max_num_nodes, requests_to_sched, is_constraint) ==
    LET node_type_available == compute_available_node_types(nodes, node_type_configs)
        launched(n) == [target_nodes |-> n.target_nodes, infeasible |-> n.requests_to_sched,
                        raised |-> n.raised]
        packed(e) ==
            IF e.raised
            THEN [target_nodes |-> nodes, infeasible |-> e.requests_to_sched, raised |-> TRUE]
            ELSE launched(new_nodes_loop(e.requests_to_sched,
                                         initial_node_pools(node_type_configs,
                                                            node_type_available, 1),
                                         e.target_nodes \o e.existing_nodes,
                                         node_type_available, node_type_configs,
                                         max_num_nodes, is_constraint))
    IN packed(existing_nodes_loop(SortRequests(requests_to_sched), nodes, <<>>,
                                  is_constraint))

(***************************************************************************)
(* The phases of ResourceDemandScheduler.schedule                          *)
(***************************************************************************)

\* InstanceUtil.is_ray_running_reachable: the statuses from which RAY_RUNNING
\* is still ahead
is_ray_running_reachable(status) ==
    status \in {"QUEUED", "REQUESTED", "ALLOCATED", "RAY_INSTALLING"}

\* the scheduling node of one AutoscalerInstance, or nothing
SchedulingNodeOf(instance, node_type_configs) ==
    IF ~IsNone(instance.ray_node)
    THEN LET ray_node == instance.ray_node[1]
         IN <<NewSchedulingNode(
                ray_node.ray_node_type_name, ray_node.total_resources,
                ray_node.available_resources, ray_node.total_resources,
                ray_node.dynamic_labels, "RUNNING",
                IF ~IsNone(instance.im_instance) THEN instance.im_instance[1].instance_id ELSE 0,
                ray_node.node_id, ray_node.idle_duration_ms,
                IF ~IsNone(instance.im_instance)
                THEN instance.im_instance[1].launch_config_hash ELSE "")>>
    ELSE IF /\ ~IsNone(instance.im_instance)
            /\ is_ray_running_reachable(instance.im_instance[1].status)
    THEN LET node_config == GetConfig(node_type_configs, instance.im_instance[1].instance_type)
         IN IF IsNone(node_config) THEN <<>>
            ELSE <<from_node_config(node_config[1], "PENDING",
                                    instance.im_instance[1].instance_id)>>
    ELSE <<>>

\* ScheduleContext.from_schedule_request: the nodes of the context
RECURSIVE from_schedule_request(_, _)
from_schedule_request(current_instances, node_type_configs) ==
    IF current_instances = <<>> THEN <<>>
    ELSE SchedulingNodeOf(Head(current_instances), node_type_configs)
         \o from_schedule_request(Tail(current_instances), node_type_configs)

\* a TerminationRequest (its time-based id left out)
TerminationRequest(node, cause, max_num_nodes, max_num_nodes_per_type, idle_duration_ms) ==
    [instance_id |-> node.im_instance_id,
     ray_node_id |-> node.ray_node_id,
     cause |-> cause,
     max_num_nodes |-> max_num_nodes,
     max_num_nodes_per_type |-> max_num_nodes_per_type,
     idle_duration_ms |-> idle_duration_ms]

\* the test of _terminate_outdated_nodes on a RUNNING node
IsOutdated(node, node_type_configs) ==
    LET node_type_config == GetConfig(node_type_configs, node.node_type)
    IN \/ IsNone(node_type_config)
       \/ /\ node_type_config[1].launch_config_hash # ""
          /\ node_type_config[1].launch_config_hash # node.launch_config_hash

\* ResourceDemandScheduler._terminate_outdated_nodes
\* a bug of _terminate_outdated_nodes: the hash of the node is not compared,
\* every running node of a type that declares a hash is terminated
terminate_outdated_nodes_any_hash(nodes, node_type_configs) ==
    [i \in DOMAIN nodes |->
        IF /\ nodes[i].status = "RUNNING"
           /\ \/ IsNone(GetConfig(node_type_configs, nodes[i].node_type))
              \/ GetConfig(node_type_configs, nodes[i].node_type)[1].launch_config_hash # ""
        THEN [nodes[i] EXCEPT !.status = "TO_TERMINATE",
                              !.termination_request =
                                  Some(TerminationRequest(nodes[i], "OUTDATED", 0, 0, 0))]
        ELSE nodes[i]]

terminate_outdated_nodes(nodes, node_type_configs) ==
    [i \in DOMAIN nodes |->
        IF nodes[i].status = "RUNNING" /\ IsOutdated(nodes[i], node_type_configs)
        THEN [nodes[i] EXCEPT !.status = "TO_TERMINATE",
                              !.termination_request =
                                  Some(TerminationRequest(nodes[i], "OUTDATED", 0, 0, 0))]
        ELSE nodes[i]]

\* the nodes _enforce_min_workers_per_type adds: for each type under its minimum
\* ONE node object, repeated (min_count - cur_count) times in the list
RECURSIVE min_workers_new_nodes(_, _, _)
min_workers_new_nodes(nodes, node_type_configs, i) ==
    IF i > Len(node_type_configs) THEN <<>>
    ELSE LET node_type_config == node_type_configs[i]
             cur_count == cluster_shape(nodes, node_type_config.name)
             min_count == node_type_config.min_worker_nodes
         IN (IF cur_count < min_count
             THEN Repeat([from_node_config(node_type_config, "TO_LAUNCH", 0) EXCEPT !.ref = i],
                         min_count - cur_count)
             ELSE <<>>) \o min_workers_new_nodes(nodes, node_type_configs, i + 1)

\* ResourceDemandScheduler._enforce_min_workers_per_type
\* a bug of _enforce_min_workers_per_type: the nodes marked for termination
\* count toward the minimum
enforce_min_workers_per_type_all_counted(nodes, node_type_configs) ==
    min_workers_new_nodes([i \in DOMAIN nodes |-> [nodes[i] EXCEPT !.status = "RUNNING"]],
                          node_type_configs, 1) \o nodes

enforce_min_workers_per_type(nodes, node_type_configs) ==
    min_workers_new_nodes(nodes, node_type_configs, 1) \o nodes

\* avg_util of _sort_nodes_for_termination, as a fraction
TerminationAvgUtil(node) ==
    LET keys == {k \in DOMAIN node.total_resources : node.total_resources[k] > 0}
        utils == [k \in keys |-> Util(node, k)]
        total == FracSum(utils, keys)
    IN IF keys = {} THEN <<0, 1>> ELSE <<total[1], total[2] * Cardinality(keys)>>

\* a bug of _sort_nodes_for_termination: the idle duration is not reversed,
\* the node idle for the shortest time goes first
sort_nodes_for_termination_shortest_idle(a, b) ==
    LET ra == a.status = "RUNNING"
        rb == b.status = "RUNNING"
    IN \/ ~ra /\ rb
       \/ /\ ra = rb
          /\ \/ a.idle_duration_ms < b.idle_duration_ms
             \/ /\ a.idle_duration_ms = b.idle_duration_ms
                /\ FracLess(TerminationAvgUtil(a), TerminationAvgUtil(b))

\* order of the keys of ResourceDemandScheduler._sort_nodes_for_termination:
\* (running_ray, -idle_duration_ms, avg_util)
sort_nodes_for_termination(a, b) ==
    LET ra == a.status = "RUNNING"
        rb == b.status = "RUNNING"
    IN \/ ~ra /\ rb
       \/ /\ ra = rb
          /\ \/ -a.idle_duration_ms < -b.idle_duration_ms
             \/ /\ a.idle_duration_ms = b.idle_duration_ms
                /\ FracLess(TerminationAvgUtil(a), TerminationAvgUtil(b))

\* the marking loop of _select_nodes_to_terminate over nodes[:num_to_terminate]
RECURSIVE MarkTerminated(_, _, _, _, _, _)
MarkTerminated(nodes, i, num_to_terminate, cause, max_num_nodes, max_num_nodes_per_type) ==
    IF i > num_to_terminate \/ i > Len(nodes) THEN nodes
    ELSE MarkTerminated(
             WriteNode(nodes, i,
                 [nodes[i] EXCEPT !.status = "TO_TERMINATE",
                                  !.termination_request =
                                      Some(TerminationRequest(nodes[i], cause, max_num_nodes,
                                                              max_num_nodes_per_type, 0))]),
             i + 1, num_to_terminate, cause, max_num_nodes, max_num_nodes_per_type)

\* ResourceDemandScheduler._select_nodes_to_terminate: [terminated, remained]
select_nodes_to_terminate(nodes, num_to_terminate, cause, max_num_nodes, max_num_nodes_per_type) ==
    LET sorted == StableSort(nodes, sort_nodes_for_termination)
        marked == MarkTerminated(sorted, 1, num_to_terminate, cause, max_num_nodes,
                                 max_num_nodes_per_type)
        k == IF num_to_terminate < Len(nodes) THEN num_to_terminate ELSE Len(nodes)
    IN [terminated |-> SubSeq(marked, 1, k), remained |-> SubSeq(marked, k + 1, Len(marked))]

NonTerminating(nodes) ==
    LET keep(n) == n.status # "TO_TERMINATE" IN SelectSeq(nodes, keep)

Terminating(nodes) ==
    LET keep(n) == n.status = "TO_TERMINATE" IN SelectSeq(nodes, keep)

OfType(nodes, node_type) ==
    LET keep(n) == n.node_type = node_type IN SelectSeq(nodes, keep)

\* the keys of non_terminating_nodes_by_type, in insertion order
RECURSIVE TypesInOrder(_, _)
TypesInOrder(nodes, seen) ==
    IF nodes = <<>> THEN <<>>
    ELSE IF Head(nodes).node_type \in seen THEN TypesInOrder(Tail(nodes), seen)
    ELSE <<Head(nodes).node_type>>
         \o TypesInOrder(Tail(nodes), seen \cup {Head(nodes).node_type})

\* Step 1 of _enforce_max_workers_per_type, over the types in order:
\* [terminating_nodes, non_terminating_nodes]
RECURSIVE max_workers_per_type_loop(_, _, _, _, _)
max_workers_per_type_loop(types, non_terminating, node_type_configs, terminating_nodes, non_terminating_nodes) ==
    IF types = <<>>
    THEN [terminating_nodes |-> terminating_nodes,
          non_terminating_nodes |-> non_terminating_nodes]
    ELSE LET non_terminate_nodes_of_type == OfType(non_terminating, Head(types))
             node_config == GetConfig(node_type_configs, Head(types))
             num_max_nodes_per_type ==
                 IF IsNone(node_config) THEN 0 ELSE node_config[1].max_worker_nodes
             num_extra_nodes == Len(non_terminate_nodes_of_type) - num_max_nodes_per_type
             sel == select_nodes_to_terminate(non_terminate_nodes_of_type, num_extra_nodes,
                                              "MAX_NUM_NODE_PER_TYPE", 0,
                                              num_max_nodes_per_type)
         IN IF num_extra_nodes <= 0
            THEN max_workers_per_type_loop(Tail(types), non_terminating, node_type_configs,
                     terminating_nodes,
                     non_terminating_nodes \o non_terminate_nodes_of_type)
            ELSE max_workers_per_type_loop(Tail(types), non_terminating, node_type_configs,
                     terminating_nodes \o sel.terminated,
                     non_terminating_nodes \o sel.remained)

\* ResourceDemandScheduler._enforce_max_workers_per_type
enforce_max_workers_per_type(nodes, node_type_configs) ==
    LET non_terminating == NonTerminating(nodes)
        r == max_workers_per_type_loop(TypesInOrder(non_terminating, {}), non_terminating,
                                       node_type_configs, Terminating(nodes), <<>>)
    IN r.terminating_nodes \o r.non_terminating_nodes

\* num_to_terminate of _enforce_max_workers_global: `if num_max_nodes` is false
\* for None and for 0
GlobalNumToTerminate(nodes, max_num_nodes) ==
    IF ~IsNone(max_num_nodes) /\ max_num_nodes[1] # 0
    THEN (IF Len(NonTerminating(nodes)) - max_num_nodes[1] > 0
          THEN Len(NonTerminating(nodes)) - max_num_nodes[1] ELSE 0)
    ELSE 0

\* ResourceDemandScheduler._enforce_max_workers_global
enforce_max_workers_global(nodes, max_num_nodes) ==
    LET num_to_terminate == GlobalNumToTerminate(nodes, max_num_nodes)
        sel == select_nodes_to_terminate(NonTerminating(nodes), num_to_terminate,
                                         "MAX_NUM_NODES", max_num_nodes[1], 0)
    IN IF num_to_terminate <= 0 THEN nodes
       ELSE Terminating(nodes) \o sel.terminated \o sel.remained

\* ResourceRequestUtil.ungroup_by_count
RECURSIVE ungroup_by_count(_)
ungroup_by_count(requests_by_count) ==
    IF requests_by_count = <<>> THEN <<>>
    ELSE Repeat(Head(requests_by_count).request, Head(requests_by_count).count)
         \o ungroup_by_count(Tail(requests_by_count))

\* ResourceRequestUtil.group_by_count: equal requests together, in the order of
\* their first occurrence
RECURSIVE group_by_count(_)
group_by_count(requests) ==
    IF requests = <<>> THEN <<>>
    ELSE LET same(r) == r = Head(requests)
             other(r) == r # Head(requests)
         IN <<[request |-> Head(requests), count |-> Len(SelectSeq(requests, same))]>>
            \o group_by_count(SelectSeq(requests, other))

\* a bug of _enforce_resource_constraints: the context is updated although the
\* constraint is infeasible
enforce_resource_constraints_partial(nodes, node_type_configs, max_num_nodes, constraints) ==
    IF Len(constraints) > 1
    THEN [nodes |-> nodes, infeasible |-> <<>>, raised |-> TRUE]
    ELSE IF Len(constraints) = 0
    THEN [nodes |-> nodes, infeasible |-> <<>>, raised |-> FALSE]
    ELSE LET update(t) ==
                 IF t.raised THEN [nodes |-> nodes, infeasible |-> <<>>, raised |-> TRUE]
                 ELSE [nodes |-> t.target_nodes,
                       infeasible |-> IF t.infeasible # <<>> THEN <<constraints[1]>> ELSE <<>>,
                       raised |-> FALSE]
         IN update(TrySchedule(nodes, node_type_configs, max_num_nodes,
                               ungroup_by_count(constraints[1].min_bundles), TRUE))

\* ResourceDemandScheduler._enforce_resource_constraints:
\* [nodes, infeasible, raised]; more than one constraint fails the assertion
enforce_resource_constraints(nodes, node_type_configs, max_num_nodes, constraints) ==
    IF Len(constraints) > 1
    THEN [nodes |-> nodes, infeasible |-> <<>>, raised |-> TRUE]
    ELSE IF Len(constraints) = 0
    THEN [nodes |-> nodes, infeasible |-> <<>>, raised |-> FALSE]
    ELSE LET update(t) ==
                 IF t.raised THEN [nodes |-> nodes, infeasible |-> <<>>, raised |-> TRUE]
                 ELSE IF t.infeasible # <<>>
                 THEN [nodes |-> nodes, infeasible |-> <<constraints[1]>>, raised |-> FALSE]
                 ELSE [nodes |-> t.target_nodes, infeasible |-> <<>>, raised |-> FALSE]
         IN update(TrySchedule(nodes, node_type_configs, max_num_nodes,
                               ungroup_by_count(constraints[1].min_bundles), TRUE))

\* ResourceDemandScheduler._sched_resource_requests: [nodes, infeasible, raised]
sched_resource_requests(nodes, node_type_configs, max_num_nodes, requests_by_count) ==
    LET update(t) ==
            IF t.raised THEN [nodes |-> nodes, infeasible |-> <<>>, raised |-> TRUE]
            ELSE [nodes |-> t.target_nodes, infeasible |-> t.infeasible, raised |-> FALSE]
    IN update(TrySchedule(nodes, node_type_configs, max_num_nodes,
                          ungroup_by_count(requests_by_count), FALSE))

\* _sched_gang_resource_requests._sort_gang_resource_requests
sort_gang_resource_requests(req) ==
    <<SeqSum([i \in DOMAIN req.requests |-> Len(req.requests[i].placement_constraints)]),
      Len(req.requests)>>

GangBefore(a, b) == LexLess(sort_gang_resource_requests(b), sort_gang_resource_requests(a))

\* sorted(gang_requests, key=_sort_gang_resource_requests, reverse=True)
SortGangs(gang_requests) == StableSort(gang_requests, GangBefore)

HasAffinity(request) ==
    \E i \in DOMAIN request.placement_constraints :
        request.placement_constraints[i].kind = "affinity"

\* the (label_name, label_value) of the request's affinity constraint
AffinityOf(request) ==
    LET i == CHOOSE j \in DOMAIN request.placement_constraints :
                 /\ request.placement_constraints[j].kind = "affinity"
                 /\ \A h \in 1..(j - 1) : request.placement_constraints[h].kind # "affinity"
    IN <<request.placement_constraints[i].label_name,
         request.placement_constraints[i].label_value>>

RECURSIVE SumBundles(_)
SumBundles(requests) ==
    IF requests = <<>> THEN EmptyDict
    ELSE LET b == Head(requests).resources_bundle
             rest == SumBundles(Tail(requests))
         IN [k \in DOMAIN b \cup DOMAIN rest |-> Get(b, k) + Get(rest, k)]

RECURSIVE UnionConstraints(_, _)
UnionConstraints(constraints, seen) ==
    IF constraints = <<>> THEN <<>>
    ELSE IF Head(constraints) \in seen THEN UnionConstraints(Tail(constraints), seen)
    ELSE <<Head(constraints)>>
         \o UnionConstraints(Tail(constraints), seen \cup {Head(constraints)})

RECURSIVE AllConstraints(_)
AllConstraints(requests) ==
    IF requests = <<>> THEN <<>>
    ELSE Head(requests).placement_constraints \o AllConstraints(Tail(requests))

\* the fused requests, one per (label_name, label_value), in order of appearance
RECURSIVE FuseByAffinity(_)
FuseByAffinity(requests) ==
    IF requests = <<>> THEN <<>>
    ELSE LET same(r) == AffinityOf(r) = AffinityOf(Head(requests))
             other(r) == AffinityOf(r) # AffinityOf(Head(requests))
             group == SelectSeq(requests, same)
         IN <<[resources_bundle |-> SumBundles(group),
               placement_constraints |-> UnionConstraints(AllConstraints(group), {})]>>
            \o FuseByAffinity(SelectSeq(requests, other))

\* ResourceRequestUtil.combine_requests_with_affinity
combine_requests_with_affinity(requests) ==
    LET plain(r) == ~HasAffinity(r)
    IN SelectSeq(requests, plain) \o FuseByAffinity(SelectSeq(requests, HasAffinity))

\* a bug of _sched_gang_resource_requests: the context is updated although the
\* gang is infeasible
sched_gang_resource_request_partial(nodes, node_type_configs, max_num_nodes, gang_req) ==
    LET update(t) ==
            IF t.raised THEN [nodes |-> nodes, infeasible |-> <<>>, raised |-> TRUE]
            ELSE [nodes |-> t.target_nodes,
                  infeasible |-> IF t.infeasible # <<>> THEN <<gang_req>> ELSE <<>>,
                  raised |-> FALSE]
    IN update(TrySchedule(nodes, node_type_configs, max_num_nodes,
                          combine_requests_with_affinity(gang_req.requests), FALSE))

\* one iteration of the loop of _sched_gang_resource_requests:
\* [nodes, infeasible, raised]
sched_gang_resource_request(nodes, node_type_configs, max_num_nodes, gang_req) ==
    LET update(t) ==
            IF t.raised THEN [nodes |-> nodes, infeasible |-> <<>>, raised |-> TRUE]
            ELSE IF t.infeasible # <<>>
            THEN [nodes |-> nodes, infeasible |-> <<gang_req>>, raised |-> FALSE]
            ELSE [nodes |-> t.target_nodes, infeasible |-> <<>>, raised |-> FALSE]
    IN update(TrySchedule(nodes, node_type_configs, max_num_nodes,
                          combine_requests_with_affinity(gang_req.requests), FALSE))

s_to_ms == 1000

\* a bug of _enforce_idle_termination: a node idle for exactly the timeout is
\* taken as idle for too long
IdleTooLong_inclusive(node, idle_timeout_s) ==
    /\ ~IsNone(idle_timeout_s)
    /\ ~(node.idle_duration_ms < idle_timeout_s[1] * s_to_ms)

\* the test of _enforce_idle_termination on one node
IdleTooLong(node, idle_timeout_s) ==
    /\ ~IsNone(idle_timeout_s)
    /\ ~(node.idle_duration_ms <= idle_timeout_s[1] * s_to_ms)

\* a bug of _enforce_idle_termination: the constraints a node holds are not
\* looked at
NeededByConstraints_ignored(node) == FALSE

\* the node holds a bundle of a cluster resource constraint
NeededByConstraints(node) == Len(node.sched_constraints) > 0

\* _enforce_idle_termination without the test of the node's status
enforce_idle_termination_any_status(nodes, idle_timeout_s) ==
    [i \in DOMAIN nodes |->
        IF /\ IdleTooLong(nodes[i], idle_timeout_s)
           /\ ~NeededByConstraints(nodes[i])
        THEN [nodes[i] EXCEPT !.status = "TO_TERMINATE",
                              !.termination_request =
                                  Some(TerminationRequest(nodes[i], "IDLE", 0, 0,
                                                          nodes[i].idle_duration_ms))]
        ELSE nodes[i]]

\* ResourceDemandScheduler._enforce_idle_termination
enforce_idle_termination(nodes, idle_timeout_s) ==
    [i \in DOMAIN nodes |->
        IF /\ nodes[i].status = "RUNNING"
           /\ IdleTooLong(nodes[i], idle_timeout_s)
           /\ ~NeededByConstraints(nodes[i])
        THEN [nodes[i] EXCEPT !.status = "TO_TERMINATE",
                              !.termination_request =
                                  Some(TerminationRequest(nodes[i], "IDLE", 0, 0,
                                                          nodes[i].idle_duration_ms))]
        ELSE nodes[i]]

ToLaunch(nodes) ==
    LET keep(n) == n.status = "TO_LAUNCH" IN SelectSeq(nodes, keep)

\* ScheduleContext.get_launch_requests (the time-based id and timestamp left out)
get_launch_requests(nodes) ==
    LET types == TypesInOrder(ToLaunch(nodes), {})
    IN [i \in DOMAIN types |->
           [instance_type |-> types[i], count |-> Len(OfType(ToLaunch(nodes), types[i]))]]

\* ScheduleContext.get_terminate_requests
get_terminate_requests(nodes) ==
    LET has(n) == ~IsNone(n.termination_request)
        marked == SelectSeq(nodes, has)
    IN [i \in DOMAIN marked |-> marked[i].termination_request[1]]

\* the loop of ResourceDemandScheduler._sched_gang_resource_requests over the
\* sorted gangs: [nodes, infeasible, raised]
RECURSIVE sched_gang_loop(_, _, _, _, _)
sched_gang_loop(nodes, node_type_configs, max_num_nodes, gangs, infeasible_gangs) ==
    IF gangs = <<>>
    THEN [nodes |-> nodes, infeasible |-> infeasible_gangs, raised |-> FALSE]
    ELSE LET rest(r) ==
                 IF r.raised
                 THEN [nodes |-> nodes, infeasible |-> infeasible_gangs, raised |-> TRUE]
                 ELSE sched_gang_loop(r.nodes, node_type_configs, max_num_nodes, Tail(gangs),
                                      infeasible_gangs \o r.infeasible)
         IN rest(sched_gang_resource_request(nodes, node_type_configs, max_num_nodes,
                                             Head(gangs)))

\* ResourceDemandScheduler.schedule as a function of the request: the reply, the
\* final nodes of the context, and whether an exception left the call
schedule(req) ==
    LET n0 == from_schedule_request(req.current_instances, req.node_type_configs)
        n1 == terminate_outdated_nodes(n0, req.node_type_configs)
        n2 == enforce_min_workers_per_type(n1, req.node_type_configs)
        n3 == enforce_max_workers_per_type(n2, req.node_type_configs)
        n4 == enforce_max_workers_global(n3, req.max_num_nodes)
        c == enforce_resource_constraints(n4, req.node_type_configs, req.max_num_nodes,
                                          req.cluster_resource_constraints)
        g == sched_gang_loop(c.nodes, req.node_type_configs, req.max_num_nodes,
                             SortGangs(req.gang_resource_requests), <<>>)
        r == sched_resource_requests(g.nodes, req.node_type_configs, req.max_num_nodes,
                                     req.resource_requests)
        n8 == enforce_idle_termination(r.nodes, req.idle_timeout_s)
    IN IF c.raised \/ g.raised \/ r.raised
       THEN [raised |-> TRUE]
       ELSE [raised |-> FALSE,
             nodes |-> n8,
             to_launch |-> get_launch_requests(n8),
             to_terminate |-> get_terminate_requests(n8),
             infeasible_resource_requests |-> group_by_count(r.infeasible),
             infeasible_gang_resource_requests |-> g.infeasible,
             infeasible_cluster_resource_constraints |-> c.infeasible]

(***************************************************************************)
(* Instance Manager (instance_manager.py, common.py: InstanceUtil)          *)
(***************************************************************************)

InstanceStatuses ==
    {"QUEUED", "REQUESTED", "ALLOCATED", "ALLOCATION_FAILED", "RAY_INSTALLING",
     "RAY_INSTALL_FAILED", "RAY_RUNNING", "RAY_STOPPING", "RAY_STOPPED", "TERMINATING",
     "TERMINATION_FAILED", "TERMINATED"}

\* the arrows of the instance state machine
ValidTransitions(status) ==
    CASE status = "QUEUED" -> {"REQUESTED"}
      [] status = "REQUESTED" -> {"ALLOCATED", "ALLOCATION_FAILED"}
      [] status = "ALLOCATED" -> {"RAY_INSTALLING"}
      [] status = "RAY_INSTALLING" -> {"RAY_RUNNING", "RAY_INSTALL_FAILED"}
      [] status = "RAY_RUNNING" -> {"RAY_STOPPING"}
      [] status = "RAY_STOPPING" -> {"RAY_STOPPED"}
      [] status = "RAY_STOPPED" -> {"TERMINATING"}
      [] status = "TERMINATING" -> {"TERMINATED", "TERMINATION_FAILED"}
      [] OTHER -> {}

RECURSIVE ReachableFrom(_, _)
ReachableFrom(frontier, seen) ==
    LET next == UNION {ValidTransitions(st) : st \in frontier} \ seen
    IN IF next = {} THEN seen ELSE ReachableFrom(next, seen \cup next)

\* InstanceUtil.get_reachable_statuses: the statuses downstream of a status
get_reachable_statuses(status) == ReachableFrom({status}, {})

\* the instance of an update event, in the instances
InstanceById(instances, instance_id) ==
    instances[CHOOSE i \in DOMAIN instances : instances[i].instance_id = instance_id]

\* whether the Instance Manager accepts the event: a known instance and an
\* arrow of the state machine
ValidUpdate(instances, update) ==
    /\ \E i \in DOMAIN instances : instances[i].instance_id = update.instance_id
    /\ update.new_instance_status
           \in ValidTransitions(InstanceById(instances, update.instance_id).status)

\* the instance after an accepted event
ApplyUpdate(instance, update) ==
    [instance EXCEPT !.status = update.new_instance_status,
                     !.cloud_instance_id =
                         IF update.cloud_instance_id # 0 THEN update.cloud_instance_id ELSE @]

UpdatesFor(updates, instance_id) ==
    {i \in DOMAIN updates : updates[i].instance_id = instance_id}

\* InstanceManager.update_instance_manager_state: the batch is applied as a
\* whole, or rejected as a whole with VERSION_MISMATCH or ILLEGAL_TRANSITION
update_instance_manager_state(instances, version, expected_version, updates) ==
    IF expected_version # version
    THEN [code |-> "VERSION_MISMATCH", instances |-> instances, version |-> version]
    ELSE IF \E i \in DOMAIN updates : ~ValidUpdate(instances, updates[i])
    THEN [code |-> "ILLEGAL_TRANSITION", instances |-> instances, version |-> version]
    ELSE [code |-> "OK",
          instances |->
              [i \in DOMAIN instances |->
                  IF UpdatesFor(updates, instances[i].instance_id) = {} THEN instances[i]
                  ELSE ApplyUpdate(instances[i],
                                   updates[CHOOSE j \in UpdatesFor(updates,
                                                       instances[i].instance_id) : TRUE])],
          version |-> version + 1]

(***************************************************************************)
(* Reconciler                                                              *)
(***************************************************************************)

IMInstanceUpdateEvent(instance_id, new_instance_status, cloud_instance_id, details) ==
    [instance_id |-> instance_id, new_instance_status |-> new_instance_status,
     cloud_instance_id |-> cloud_instance_id, details |-> details]

\* launch_errors of _handle_cloud_instance_allocation: the LaunchNodeErrors by
\* request id; a later error of the same request id replaces an earlier one
LaunchErrorRequestIds(cloud_provider_errors) ==
    {cloud_provider_errors[i].request_id :
        i \in {j \in DOMAIN cloud_provider_errors : cloud_provider_errors[j].kind = "launch"}}

launch_errors(cloud_provider_errors) ==
    [r \in LaunchErrorRequestIds(cloud_provider_errors) |->
        cloud_provider_errors[
            CHOOSE i \in DOMAIN cloud_provider_errors :
                /\ cloud_provider_errors[i].kind = "launch"
                /\ cloud_provider_errors[i].request_id = r
                /\ \A j \in DOMAIN cloud_provider_errors :
                       (j > i /\ cloud_provider_errors[j].kind = "launch")
                           => cloud_provider_errors[j].request_id # r]]

\* unassigned_cloud_instances_by_type: per node type, the cloud instances no
\* instance is bound to, in the order of non_terminated_cloud_instances
unassigned_cloud_instances_by_type(im_instances, non_terminated_cloud_instances) ==
    LET assigned_cloud_instance_ids ==
            {im_instances[i].cloud_instance_id : i \in DOMAIN im_instances}
        unassigned(c) == c.cloud_instance_id \notin assigned_cloud_instance_ids
        free == SelectSeq(non_terminated_cloud_instances, unassigned)
    IN [t \in {free[i].node_type : i \in DOMAIN free} |-> OfType(free, t)]

\* a bug of _try_or_fail_allocation: the cloud instance given out stays in
\* the list of the unassigned ones
try_or_fail_allocation_no_pop(im_instance, unassigned, errors) ==
    IF im_instance.instance_type \in DOMAIN unassigned
       /\ Len(unassigned[im_instance.instance_type]) > 0
    THEN LET list == unassigned[im_instance.instance_type]
         IN [update |-> Some(IMInstanceUpdateEvent(im_instance.instance_id, "ALLOCATED",
                                                   list[Len(list)].cloud_instance_id, "")),
             unassigned |-> unassigned]
    ELSE IF /\ im_instance.launch_request_id \in DOMAIN errors
            /\ errors[im_instance.launch_request_id].node_type = im_instance.instance_type
    THEN [update |-> Some(IMInstanceUpdateEvent(
                              im_instance.instance_id, "ALLOCATION_FAILED", 0,
                              errors[im_instance.launch_request_id].details)),
          unassigned |-> unassigned]
    ELSE [update |-> None, unassigned |-> unassigned]

\* Reconciler._try_or_fail_allocation: [update, unassigned]; update is None
\* or the event; a cloud instance given out is popped from the end of its list
try_or_fail_allocation(im_instance, unassigned, errors) ==
    IF im_instance.instance_type \in DOMAIN unassigned
       /\ Len(unassigned[im_instance.instance_type]) > 0
    THEN LET list == unassigned[im_instance.instance_type]
         IN [update |-> Some(IMInstanceUpdateEvent(im_instance.instance_id, "ALLOCATED",
                                                   list[Len(list)].cloud_instance_id, "")),
             unassigned |-> [unassigned EXCEPT ![im_instance.instance_type] =
                                                   SubSeq(list, 1, Len(list) - 1)]]
    ELSE IF /\ im_instance.launch_request_id \in DOMAIN errors
            /\ errors[im_instance.launch_request_id].node_type = im_instance.instance_type
    THEN [update |-> Some(IMInstanceUpdateEvent(
                              im_instance.instance_id, "ALLOCATION_FAILED", 0,
                              errors[im_instance.launch_request_id].details)),
          unassigned |-> unassigned]
    ELSE [update |-> None, unassigned |-> unassigned]

\* the loop of _handle_cloud_instance_allocation over the sorted instances
RECURSIVE allocation_loop(_, _, _, _)
allocation_loop(instances, unassigned, errors, updates) ==
    IF instances = <<>> THEN updates
    ELSE LET r == try_or_fail_allocation(Head(instances), unassigned, errors)
         IN allocation_loop(Tail(instances), r.unassigned, errors, updates \o r.update)

\* a bug of _handle_cloud_instance_allocation: the instances are not sorted,
\* they are taken in the order of the Instance Manager
RequestedBefore_unsorted(a, b) == FALSE

\* the key of the sort of instances_with_launch_requests: the times of the
\* instance's REQUESTED transitions
RequestedBefore(a, b) == LexLess(a.requested_ns, b.requested_ns)

\* Reconciler._handle_cloud_instance_allocation: the updates it submits
handle_cloud_instance_allocation(im_instances, non_terminated_cloud_instances, cloud_provider_errors) ==
    LET has_request(instance) == instance.launch_request_id # 0
        instances_with_launch_requests ==
            StableSort(SelectSeq(im_instances, has_request), RequestedBefore)
    IN allocation_loop(instances_with_launch_requests,
                       unassigned_cloud_instances_by_type(im_instances,
                                                          non_terminated_cloud_instances),
                       launch_errors(cloud_provider_errors), <<>>)

\* Reconciler._handle_cloud_instance_terminated: the updates it submits (the
\* method body is `pass`)
handle_cloud_instance_terminated(im_instances, non_terminated_cloud_instances, cloud_provider_errors) ==
    <<>>

\* a bug of _reconciled_im_status_from_ray_status: a status downstream of the
\* reconciled one is not kept
reconciled_im_status_from_ray_status_no_skip(ray_status, cur_im_status) ==
    CASE ray_status \in {"RUNNING", "IDLE"} -> Some("RAY_RUNNING")
      [] ray_status = "DEAD" -> Some("RAY_STOPPED")
      [] ray_status = "DRAINING" -> Some("RAY_STOPPING")
      [] OTHER -> None

\* Reconciler._reconciled_im_status_from_ray_status: None or the status
reconciled_im_status_from_ray_status(ray_status, cur_im_status) ==
    LET reconciled_im_status ==
            CASE ray_status \in {"RUNNING", "IDLE"} -> "RAY_RUNNING"
              [] ray_status = "DEAD" -> "RAY_STOPPED"
              [] ray_status = "DRAINING" -> "RAY_STOPPING"
              [] OTHER -> "None"
    IN IF reconciled_im_status = "None" THEN None
       ELSE IF \/ cur_im_status = reconciled_im_status
               \/ cur_im_status \in get_reachable_statuses(reconciled_im_status)
       THEN Some(cur_im_status)
       ELSE Some(reconciled_im_status)

\* the last of the entries with the key, as in a dict comprehension
LastWith(s, Has(_)) == s[CHOOSE i \in DOMAIN s : Has(s[i]) /\ \A j \in DOMAIN s : j > i => ~Has(s[j])]

\* the keys of a dict built from the list, in insertion order
RECURSIVE KeysInOrder(_, _)
KeysInOrder(keys, seen) ==
    IF keys = <<>> THEN <<>>
    ELSE IF Head(keys) \in seen THEN KeysInOrder(Tail(keys), seen)
    ELSE <<Head(keys)>> \o KeysInOrder(Tail(keys), seen \cup {Head(keys)})

\* the update of _handle_ray_status_transition for one cloud instance id
RayStatusUpdate(instances, ray_nodes, cloud_instance_id) ==
    LET bound(i) == i.cloud_instance_id = cloud_instance_id
        reports(n) == n.instance_id = cloud_instance_id
    IN IF ~\E i \in DOMAIN instances : bound(instances[i]) THEN <<>>
       ELSE LET im_instance == LastWith(instances, bound)
                ray_node == LastWith(ray_nodes, reports)
                reconciled_im_status ==
                    reconciled_im_status_from_ray_status(ray_node.status, im_instance.status)
            IN IF IsNone(reconciled_im_status) THEN <<>>
               ELSE IF reconciled_im_status[1] # im_instance.status
               THEN <<IMInstanceUpdateEvent(im_instance.instance_id, reconciled_im_status[1],
                                            0, "ray")>>
               ELSE <<>>

RECURSIVE ray_status_loop(_, _, _)
ray_status_loop(instances, ray_nodes, cloud_instance_ids) ==
    IF cloud_instance_ids = <<>> THEN <<>>
    ELSE RayStatusUpdate(instances, ray_nodes, Head(cloud_instance_ids))
         \o ray_status_loop(instances, ray_nodes, Tail(cloud_instance_ids))

\* the updates dict: a later event of an instance replaces its earlier one, at
\* the position of the first
RECURSIVE AsDict(_)
AsDict(updates) ==
    IF updates = <<>> THEN <<>>
    ELSE LET same(u) == u.instance_id = Head(updates).instance_id
             other(u) == u.instance_id # Head(updates).instance_id
         IN <<LastWith(updates, same)>> \o AsDict(SelectSeq(updates, other))

\* Reconciler._handle_ray_status_transition: the updates it submits
handle_ray_status_transition(instances, ray_nodes) ==
    LET managed(n) == n.instance_id # 0
        reported == SelectSeq(ray_nodes, managed)
    IN AsDict(ray_status_loop(instances, ray_nodes,
                              KeysInOrder([i \in DOMAIN reported |-> reported[i].instance_id],
                                          {})))

\* a bug of _handle_ray_install_failed: the instances are not filtered by
\* their status
handle_ray_install_failed_any_status(instances, ray_install_errors) ==
    LET hit(instance) ==
            \E i \in DOMAIN ray_install_errors :
                ray_install_errors[i].im_instance_id = instance.instance_id
        failed == SelectSeq(instances, hit)
    IN [i \in DOMAIN failed |->
           IMInstanceUpdateEvent(failed[i].instance_id, "RAY_INSTALL_FAILED", 0, "install")]

\* Reconciler._handle_ray_install_failed: the updates it submits
handle_ray_install_failed(instances, ray_install_errors) ==
    LET hit(instance) ==
            /\ instance.status = "RAY_INSTALLING"
            /\ \E i \in DOMAIN ray_install_errors :
                   ray_install_errors[i].im_instance_id = instance.instance_id
        failed == SelectSeq(instances, hit)
    IN [i \in DOMAIN failed |->
           LET error(e) == e.im_instance_id = failed[i].instance_id
           IN IMInstanceUpdateEvent(failed[i].instance_id, "RAY_INSTALL_FAILED", 0,
                                    LastWith(ray_install_errors, error).details)]

(***************************************************************************)
(* Inputs of schedule: the SchedulingRequests explored                      *)
(***************************************************************************)

MaxWorkers == 2
MaxInstances == 2

Bundle(cpu, gpu) ==
    [k \in (IF cpu > 0 THEN {"CPU"} ELSE {}) \cup (IF gpu > 0 THEN {"GPU"} ELSE {}) |->
        IF k = "CPU" THEN cpu ELSE gpu]

Request(bundle, placement_constraints) ==
    [resources_bundle |-> bundle, placement_constraints |-> placement_constraints]

Affinity(label_name, label_value) ==
    [kind |-> "affinity", label_name |-> label_name, label_value |-> label_value]

AntiAffinity(label_name, label_value) ==
    [kind |-> "anti_affinity", label_name |-> label_name, label_value |-> label_value]

ByCount(request, count) == [request |-> request, count |-> count]

NodeTypeConfig(name, resources, min_worker_nodes, max_worker_nodes, launch_config_hash) ==
    [name |-> name, resources |-> resources, labels |-> EmptyDict,
     min_worker_nodes |-> min_worker_nodes, max_worker_nodes |-> max_worker_nodes,
     launch_config_hash |-> launch_config_hash]

\* two node types: a CPU type that declares a launch config hash and a GPU type
\* that declares none
NodeTypeConfigs(min1, max1) ==
    <<NodeTypeConfig("t1", Bundle(2, 0), min1, max1, "h1"),
      NodeTypeConfig("t2", Bundle(1, 1), 0, 1, "")>>

NodeTypeConfigChoices ==
    {NodeTypeConfigs(min1, max1) : min1 \in 0..MaxWorkers, max1 \in 0..MaxWorkers}

MaxNumNodesChoices == {None, Some(0), Some(2)}

IdleTimeoutChoices == {None, Some(1)}

\* a ray node of an instance
RayNode(node_type, total, available, idle_duration_ms) ==
    [ray_node_type_name |-> node_type, total_resources |-> total,
     available_resources |-> available, idle_duration_ms |-> idle_duration_ms,
     dynamic_labels |-> EmptyDict]

\* the shapes of AutoscalerInstance explored: im status, type, config hash, ray node
IdleRunning(idle_duration_ms) ==
    [status |-> "RAY_RUNNING", instance_type |-> "t1", launch_config_hash |-> "h1",
     ray_node |-> Some(RayNode("t1", Bundle(2, 0), Bundle(2, 0), idle_duration_ms))]

BusyRunning ==
    [status |-> "RAY_RUNNING", instance_type |-> "t1", launch_config_hash |-> "h1",
     ray_node |-> Some(RayNode("t1", Bundle(2, 0), Bundle(1, 0), 0))]

OutdatedRunning ==
    [status |-> "RAY_RUNNING", instance_type |-> "t1", launch_config_hash |-> "h2",
     ray_node |-> Some(RayNode("t1", Bundle(2, 0), Bundle(2, 0), 1001))]

GpuRunning ==
    [status |-> "RAY_RUNNING", instance_type |-> "t2", launch_config_hash |-> "",
     ray_node |-> Some(RayNode("t2", Bundle(1, 1), [CPU |-> 0, GPU |-> 1], 0))]

Pending ==
    [status |-> "REQUESTED", instance_type |-> "t1", launch_config_hash |-> "h1",
     ray_node |-> None]

Terminated ==
    [status |-> "TERMINATED", instance_type |-> "t1", launch_config_hash |-> "h1",
     ray_node |-> None]

InstanceShapes ==
    {IdleRunning(1000), IdleRunning(1001), BusyRunning, OutdatedRunning, GpuRunning,
     Pending, Terminated}

\* the AutoscalerInstance of shape `shape` at position i of current_instances
AutoscalerInstance(shape, i) ==
    [im_instance |-> Some([instance_id |-> i, instance_type |-> shape.instance_type,
                           status |-> shape.status,
                           launch_config_hash |-> shape.launch_config_hash]),
     ray_node |-> IF IsNone(shape.ray_node) THEN None
                  ELSE Some([node_id |-> i] @@ shape.ray_node[1]),
     cloud_instance_id |-> i]

InstancesOf(shapes) == [i \in DOMAIN shapes |-> AutoscalerInstance(shapes[i], i)]

\* every list of at most MaxInstances instances
CurrentInstancesChoices ==
    UNION {{InstancesOf(shapes) : shapes \in [1..n -> InstanceShapes]} : n \in 0..MaxInstances}

\* the lists of at most one instance, and some pairs
FewInstancesChoices ==
    {InstancesOf(<<>>)} \cup {InstancesOf(<<shape>>) : shape \in InstanceShapes}
    \cup {InstancesOf(<<IdleRunning(1001), BusyRunning>>),
          InstancesOf(<<BusyRunning, GpuRunning>>),
          InstancesOf(<<Pending, IdleRunning(1000)>>)}

ResourceRequestsChoices ==
    {<<>>,
     <<ByCount(Request(Bundle(1, 0), <<>>), 3)>>,
     <<ByCount(Request(Bundle(1, 0), <<>>), 2), ByCount(Request(Bundle(1, 1), <<>>), 1)>>}

Gang(requests) == [requests |-> requests]

\* two members with the same affinity: fused into one request of 2 CPU
AffinityGang ==
    Gang(<<Request(Bundle(1, 0), <<Affinity("pg", "a")>>),
           Request(Bundle(1, 0), <<Affinity("pg", "a")>>)>>)

\* fused into one request of 3 CPU, which no node type holds
BigAffinityGang ==
    Gang(<<Request(Bundle(2, 0), <<Affinity("pg", "c")>>),
           Request(Bundle(1, 0), <<Affinity("pg", "c")>>)>>)

\* two members that must land on different nodes
AntiAffinityGang ==
    Gang(<<Request(Bundle(1, 0), <<AntiAffinity("pg", "b")>>),
           Request(Bundle(1, 0), <<AntiAffinity("pg", "b")>>)>>)

\* the last choice: two gangs of one member each that use the label name "pg"
\* with different values
GangChoices ==
    {<<>>, <<AffinityGang>>, <<AntiAffinityGang>>, <<BigAffinityGang, AffinityGang>>,
     <<Gang(<<Request(Bundle(1, 0), <<Affinity("pg", "d")>>)>>),
       Gang(<<Request(Bundle(1, 0), <<Affinity("pg", "e")>>)>>)>>}

ConstraintChoices ==
    {<<>>,
     <<[min_bundles |-> <<ByCount(Request(Bundle(1, 0), <<>>), 2)>>]>>,
     <<[min_bundles |-> <<ByCount(Request(Bundle(2, 0), <<>>), 2),
                          ByCount(Request(Bundle(0, 1), <<>>), 1)>>]>>,
     <<[min_bundles |-> <<ByCount(Request(Bundle(1, 0), <<>>), 1)>>],
       [min_bundles |-> <<ByCount(Request(Bundle(0, 1), <<>>), 1)>>]>>}

SchedulingRequest(configs, max_num_nodes, idle_timeout_s, resource_requests, gang_resource_requests, cluster_resource_constraints, current_instances) ==
    [node_type_configs |-> configs,
     max_num_nodes |-> max_num_nodes,
     idle_timeout_s |-> idle_timeout_s,
     resource_requests |-> resource_requests,
     gang_resource_requests |-> gang_resource_requests,
     cluster_resource_constraints |-> cluster_resource_constraints,
     current_instances |-> current_instances]

\* The requests explored: every cluster (configs, caps, instances) without
\* demand; every demand on the clusters of few instances under one config; and
\* every demand under every config and cap on an empty or one-node cluster.
ClusterRequests ==
    {SchedulingRequest(c, m, t, <<>>, <<>>, <<>>, i) :
        c \in NodeTypeConfigChoices, m \in MaxNumNodesChoices,
        t \in IdleTimeoutChoices, i \in CurrentInstancesChoices}

DemandRequests ==
    {SchedulingRequest(NodeTypeConfigs(0, 2), m, t, r, g, k, i) :
        m \in {None, Some(2)}, t \in IdleTimeoutChoices, r \in ResourceRequestsChoices,
        g \in GangChoices, k \in ConstraintChoices, i \in FewInstancesChoices}

CappedDemandRequests ==
    {SchedulingRequest(c, m, Some(1), r, g, k, i) :
        c \in NodeTypeConfigChoices, m \in MaxNumNodesChoices,
        r \in ResourceRequestsChoices, g \in GangChoices, k \in ConstraintChoices,
        i \in {InstancesOf(<<>>), InstancesOf(<<IdleRunning(1001)>>),
               InstancesOf(<<Pending>>)}}

\* Constraints on a cluster of larger nodes: a type of 3 CPU and a type of 4 CPU,
\* one node each at most, the node of 4 CPU running or not yet there; the
\* constraint asks for bundles of 3, 2 and 2 CPU, or of 2 and 2 CPU.
PackingRequests ==
    {SchedulingRequest(<<NodeTypeConfig("t1", Bundle(3, 0), 0, 1, "h1"),
                         NodeTypeConfig("t2", Bundle(4, 0), 0, 1, "")>>,
                       None, t, <<>>, <<>>,
                       <<[min_bundles |-> <<ByCount(Request(Bundle(3, 0), <<>>), n),
                                            ByCount(Request(Bundle(2, 0), <<>>), 2)>>]>>,
                       i) :
        t \in IdleTimeoutChoices, n \in 0..1,
        i \in {InstancesOf(<<>>),
               InstancesOf(<<[status |-> "RAY_RUNNING", instance_type |-> "t2",
                              launch_config_hash |-> "",
                              ray_node |-> Some(RayNode("t2", Bundle(4, 0), Bundle(4, 0),
                                                        0))]>>)}}

\* Two running nodes of a type that have been idle for the same time, the
\* first of them in use and the second not, under a cap of one node
TerminationOrderRequests ==
    {SchedulingRequest(NodeTypeConfigs(0, max1), m, t, <<>>, <<>>, <<>>,
                       InstancesOf(<<BusyRunning, IdleRunning(0)>>)) :
        max1 \in 1..MaxWorkers, m \in {None, Some(1)}, t \in IdleTimeoutChoices}

\* Two resource requests of the same bundle that name the same label, one with
\* an affinity and one with an anti-affinity constraint, in either order, on an
\* empty cluster
ConstrainedRequests ==
    {SchedulingRequest(NodeTypeConfigs(0, MaxWorkers), None, t, rr, <<>>, <<>>, <<>>) :
        t \in IdleTimeoutChoices,
        rr \in {<<ByCount(Request(Bundle(1, 0), <<Affinity("pg", "b")>>), 1),
                  ByCount(Request(Bundle(1, 0), <<AntiAffinity("pg", "b")>>), 1)>>,
                <<ByCount(Request(Bundle(1, 0), <<AntiAffinity("pg", "b")>>), 1),
                  ByCount(Request(Bundle(1, 0), <<Affinity("pg", "b")>>), 1)>>}}

\* A small CPU type and a GPU type with CPU to spare, for the GPU term of the
\* score: two CPU requests, or a GPU request and a CPU request.
GpuScoreRequests ==
    {SchedulingRequest(<<NodeTypeConfig("t1", Bundle(1, 0), 0, 2, "h1"),
                         NodeTypeConfig("t2", Bundle(2, 1), 0, 1, "")>>,
                       None, t, rr, <<>>, <<>>, <<>>) :
        t \in IdleTimeoutChoices,
        rr \in {<<ByCount(Request(Bundle(1, 0), <<>>), 2)>>,
                <<ByCount(Request(Bundle(1, 1), <<>>), 1),
                  ByCount(Request(Bundle(1, 0), <<>>), 1)>>}}

\* One request that takes half a t1 node, on an empty cluster under every
\* min_worker_nodes of t1.
SingleDemandRequests ==
    {SchedulingRequest(NodeTypeConfigs(min1, MaxWorkers), None, t,
                       <<ByCount(Request(Bundle(1, 0), <<>>), 1)>>, <<>>, <<>>, <<>>) :
        min1 \in 0..MaxWorkers, t \in IdleTimeoutChoices}

SchedulingRequests ==
    ClusterRequests \cup DemandRequests \cup CappedDemandRequests \cup PackingRequests
    \cup TerminationOrderRequests \cup ConstrainedRequests \cup GpuScoreRequests
    \cup SingleDemandRequests

(***************************************************************************)
(* schedule() as a state machine                                           *)
(***************************************************************************)

VARIABLES request, nodes, pc, gang_queue, infeasible_constraints,
          infeasible_gang_requests, infeasible_requests, reply, previous,
          im, observations, sync_pc, read, updates, called, again

sched_vars == <<request, nodes, pc, gang_queue, infeasible_constraints,
                infeasible_gang_requests, infeasible_requests, reply, previous>>

sync_vars == <<im, observations, sync_pc, read, updates, called, again>>

vars == <<sched_vars, sync_vars>>

\* the Instance Manager state: no instance, version 0
EmptyIM == [instances |-> <<>>, version |-> 0]

NoObservations ==
    [ray_nodes |-> <<>>, non_terminated_cloud_instances |-> <<>>,
     cloud_provider_errors |-> <<>>, ray_install_errors |-> <<>>]

\* no sync_from call is made
SyncOff ==
    /\ im = EmptyIM
    /\ observations = NoObservations
    /\ sync_pc = "off"
    /\ read = EmptyIM
    /\ updates = <<>>
    /\ called = EmptyIM
    /\ again = FALSE

NoReply == [to_launch |-> <<>>, to_terminate |-> <<>>]

Init ==
    /\ request \in SchedulingRequests
    /\ nodes = <<>>
    /\ pc = "start"
    /\ gang_queue = <<>>
    /\ infeasible_constraints = <<>>
    /\ infeasible_gang_requests = <<>>
    /\ infeasible_requests = <<>>
    /\ reply = NoReply
    /\ previous = None
    /\ SyncOff

\* ctx = ScheduleContext.from_schedule_request(request)
BuildContext ==
    /\ pc = "start"
    /\ nodes' = from_schedule_request(request.current_instances, request.node_type_configs)
    /\ pc' = "outdated"
    /\ UNCHANGED <<sync_vars, previous, request, gang_queue, infeasible_constraints, infeasible_gang_requests,
                   infeasible_requests, reply>>

TerminateOutdatedNodes ==
    /\ pc = "outdated"
    /\ nodes' = terminate_outdated_nodes(nodes, request.node_type_configs)
    /\ pc' = "min_workers"
    /\ UNCHANGED <<sync_vars, previous, request, gang_queue, infeasible_constraints, infeasible_gang_requests,
                   infeasible_requests, reply>>

EnforceMinWorkersPerType ==
    /\ pc = "min_workers"
    /\ nodes' = enforce_min_workers_per_type(nodes, request.node_type_configs)
    /\ pc' = "max_workers_per_type"
    /\ UNCHANGED <<sync_vars, previous, request, gang_queue, infeasible_constraints, infeasible_gang_requests,
                   infeasible_requests, reply>>

EnforceMaxWorkersPerType ==
    /\ pc = "max_workers_per_type"
    /\ nodes' = enforce_max_workers_per_type(nodes, request.node_type_configs)
    /\ pc' = "max_workers_global"
    /\ UNCHANGED <<sync_vars, previous, request, gang_queue, infeasible_constraints, infeasible_gang_requests,
                   infeasible_requests, reply>>

EnforceMaxWorkersGlobal ==
    /\ pc = "max_workers_global"
    /\ nodes' = enforce_max_workers_global(nodes, request.max_num_nodes)
    /\ pc' = "constraints"
    /\ UNCHANGED <<sync_vars, previous, request, gang_queue, infeasible_constraints, infeasible_gang_requests,
                   infeasible_requests, reply>>

EnforceResourceConstraints ==
    /\ pc = "constraints"
    /\ \E r \in {enforce_resource_constraints(nodes, request.node_type_configs,
                                              request.max_num_nodes,
                                              request.cluster_resource_constraints)} :
          /\ nodes' = r.nodes
          /\ infeasible_constraints' = r.infeasible
          /\ pc' = IF r.raised THEN "raised" ELSE "gang"
    /\ gang_queue' = SortGangs(request.gang_resource_requests)
    /\ UNCHANGED <<sync_vars, previous, request, infeasible_gang_requests, infeasible_requests, reply>>

\* one iteration of the loop of _sched_gang_resource_requests
SchedGangResourceRequest ==
    /\ pc = "gang"
    /\ gang_queue # <<>>
    /\ \E r \in {sched_gang_resource_request(nodes, request.node_type_configs,
                                             request.max_num_nodes, Head(gang_queue))} :
          /\ nodes' = r.nodes
          /\ infeasible_gang_requests' = infeasible_gang_requests \o r.infeasible
          /\ pc' = IF r.raised THEN "raised" ELSE "gang"
    /\ gang_queue' = Tail(gang_queue)
    /\ UNCHANGED <<sync_vars, previous, request, infeasible_constraints, infeasible_requests, reply>>

SchedResourceRequests ==
    /\ pc = "gang"
    /\ gang_queue = <<>>
    /\ \E r \in {sched_resource_requests(nodes, request.node_type_configs,
                                         request.max_num_nodes, request.resource_requests)} :
          /\ nodes' = r.nodes
          /\ infeasible_requests' = r.infeasible
          /\ pc' = IF r.raised THEN "raised" ELSE "idle"
    /\ UNCHANGED <<sync_vars, previous, request, gang_queue, infeasible_constraints, infeasible_gang_requests,
                   reply>>

EnforceIdleTermination ==
    /\ pc = "idle"
    /\ nodes' = enforce_idle_termination(nodes, request.idle_timeout_s)
    /\ pc' = "reply"
    /\ UNCHANGED <<sync_vars, previous, request, gang_queue, infeasible_constraints, infeasible_gang_requests,
                   infeasible_requests, reply>>

\* reply = SchedulingReply(...); return reply
Reply ==
    /\ pc = "reply"
    /\ reply' = [to_launch |-> get_launch_requests(nodes),
                 to_terminate |-> get_terminate_requests(nodes)]
    /\ infeasible_requests' = infeasible_requests
    /\ pc' = "done"
    /\ UNCHANGED <<sync_vars, previous, request, nodes, gang_queue, infeasible_constraints,
                   infeasible_gang_requests>>

\* a bug of schedule: the list of infeasible gangs outlives the call (a list
\* that is not a local of the call), so the next call appends to it
ScheduleAgain_shared_list ==
    /\ pc = "done"
    /\ IsNone(previous)
    /\ previous' = Some([request |-> request,
                         to_launch |-> reply.to_launch,
                         to_terminate |-> reply.to_terminate,
                         infeasible_resource_requests |-> infeasible_requests,
                         infeasible_gang_resource_requests |-> infeasible_gang_requests,
                         infeasible_cluster_resource_constraints |->
                             infeasible_constraints])
    /\ pc' = "start"
    /\ nodes' = <<>>
    /\ gang_queue' = <<>>
    /\ infeasible_constraints' = <<>>
    /\ infeasible_requests' = <<>>
    /\ reply' = NoReply
    /\ UNCHANGED <<sync_vars, request, infeasible_gang_requests>>

\* the caller calls schedule once more with the request of the call that
\* returned: the call's locals are fresh, and the call that returned is kept as
\* [request, reply, infeasible lists] for comparison
ScheduleAgain ==
    /\ pc = "done"
    /\ IsNone(previous)
    /\ previous' = Some([request |-> request,
                         to_launch |-> reply.to_launch,
                         to_terminate |-> reply.to_terminate,
                         infeasible_resource_requests |-> infeasible_requests,
                         infeasible_gang_resource_requests |-> infeasible_gang_requests,
                         infeasible_cluster_resource_constraints |->
                             infeasible_constraints])
    /\ pc' = "start"
    /\ nodes' = <<>>
    /\ gang_queue' = <<>>
    /\ infeasible_constraints' = <<>>
    /\ infeasible_gang_requests' = <<>>
    /\ infeasible_requests' = <<>>
    /\ reply' = NoReply
    /\ UNCHANGED <<sync_vars, request>>

\* Reconciler.step_next with the reply of the scheduler: the method body is
\* `pass`, the Instance Manager is left as it is
StepNext ==
    /\ pc = "done"
    /\ pc' = "stepped"
    /\ im' = im
    /\ UNCHANGED <<observations, sync_pc, read, updates, called, again, previous, request,
                   nodes, gang_queue, infeasible_constraints, infeasible_gang_requests,
                   infeasible_requests, reply>>

Next ==
    \/ BuildContext
    \/ TerminateOutdatedNodes
    \/ EnforceMinWorkersPerType
    \/ EnforceMaxWorkersPerType
    \/ EnforceMaxWorkersGlobal
    \/ EnforceResourceConstraints
    \/ SchedGangResourceRequest
    \/ SchedResourceRequests
    \/ EnforceIdleTermination
    \/ Reply
    \/ ScheduleAgain
    \/ StepNext

Spec == Init /\ [][Next]_vars

(***************************************************************************)
(* Inputs of sync_from: the Instance Manager states and the observations   *)
(* explored                                                                *)
(***************************************************************************)

\* the most instances the Instance Manager holds
MaxIMInstances == 2

\* an instance; it is bound to the cloud instance of its own number, and the
\* instance of the larger id was REQUESTED first
IMInstance(instance_id, instance_type, shape) ==
    [instance_id |-> instance_id, instance_type |-> instance_type,
     status |-> shape.status,
     cloud_instance_id |-> IF shape.bound THEN instance_id ELSE 0,
     launch_request_id |-> shape.launch_request_id,
     requested_ns |-> IF shape.status = "QUEUED" THEN <<>>
                      ELSE <<MaxIMInstances + 1 - instance_id>>]

InstanceShape(status, bound, launch_request_id) ==
    [status |-> status, bound |-> bound, launch_request_id |-> launch_request_id]

UnboundStatuses == {"QUEUED", "REQUESTED", "ALLOCATION_FAILED"}

IMInstanceShapes ==
    {InstanceShape("QUEUED", FALSE, 0)}
    \cup {InstanceShape(st, st \notin UnboundStatuses, 1) : st \in InstanceStatuses}

FewIMInstanceShapes ==
    {sh \in IMInstanceShapes :
        /\ sh.status \in {"QUEUED", "REQUESTED", "ALLOCATED", "RAY_INSTALLING", "RAY_RUNNING"}
        /\ sh.launch_request_id = 1}

RECURSIVE IMInstancesChoices(_)
IMInstancesChoices(n) ==
    IF n = 0 THEN {<<>>}
    ELSE IF n = 1 THEN {<<>>} \cup {<<IMInstance(1, "t1", sh)>> : sh \in IMInstanceShapes}
    ELSE IMInstancesChoices(n - 1)
         \cup {Append(is, IMInstance(n, t, sh)) :
                  is \in {js \in IMInstancesChoices(n - 1) : Len(js) = n - 1},
                  t \in {"t1", "t2"}, sh \in FewIMInstanceShapes}

CloudInstance(cloud_instance_id, node_type) ==
    [cloud_instance_id |-> cloud_instance_id, node_type |-> node_type]

\* non_terminated_cloud_instances, in the order of the dict
CloudInstancesChoices ==
    {<<>>,
     <<CloudInstance(3, "t1")>>,
     <<CloudInstance(1, "t1"), CloudInstance(2, "t1")>>,
     <<CloudInstance(1, "t1"), CloudInstance(2, "t1"), CloudInstance(3, "t1")>>,
     <<CloudInstance(1, "t1"), CloudInstance(3, "t1"), CloudInstance(4, "t1"),
       CloudInstance(5, "t2")>>}

NodeState(node_id, instance_id, status) ==
    [node_id |-> node_id, instance_id |-> instance_id, status |-> status]

RayNodesChoices ==
    {<<>>,
     <<NodeState(1, 1, "RUNNING")>>,
     <<NodeState(1, 1, "DRAINING"), NodeState(9, 0, "RUNNING")>>,
     <<NodeState(1, 1, "DEAD")>>,
     <<NodeState(3, 3, "IDLE"), NodeState(2, 2, "UNSPECIFIED")>>}

LaunchNodeError(request_id, node_type) ==
    [kind |-> "launch", request_id |-> request_id, node_type |-> node_type,
     cloud_instance_id |-> 0, details |-> "launch"]

TerminateNodeError(cloud_instance_id) ==
    [kind |-> "terminate", request_id |-> 0, node_type |-> "",
     cloud_instance_id |-> cloud_instance_id, details |-> "terminate"]

CloudProviderErrorsChoices ==
    {<<>>,
     <<TerminateNodeError(1)>>,
     <<TerminateNodeError(1), LaunchNodeError(1, "t1")>>,
     <<LaunchNodeError(1, "t1"), LaunchNodeError(1, "t2")>>}

RayInstallError(im_instance_id) == [im_instance_id |-> im_instance_id, details |-> "install"]

RayInstallErrorsChoices == {<<>>, <<RayInstallError(1), RayInstallError(9)>>}

ObservationsChoices ==
    [ray_nodes : RayNodesChoices, non_terminated_cloud_instances : CloudInstancesChoices,
     cloud_provider_errors : CloudProviderErrorsChoices,
     ray_install_errors : RayInstallErrorsChoices]

(***************************************************************************)
(* Reconciler.sync_from, pass by pass                                      *)
(***************************************************************************)

\* no schedule call is made
SchedOff ==
    /\ request = SchedulingRequest(NodeTypeConfigs(0, 0), None, None, <<>>, <<>>, <<>>, <<>>)
    /\ nodes = <<>>
    /\ pc = "off"
    /\ gang_queue = <<>>
    /\ infeasible_constraints = <<>>
    /\ infeasible_gang_requests = <<>>
    /\ infeasible_requests = <<>>
    /\ reply = NoReply
    /\ previous = None

SyncInit ==
    /\ SchedOff
    /\ \E instances \in IMInstancesChoices(MaxIMInstances) :
           im = [instances |-> instances, version |-> 0]
    /\ observations \in ObservationsChoices
    /\ sync_pc = "ready"
    /\ read = EmptyIM
    /\ updates = <<>>
    /\ called = EmptyIM
    /\ again = FALSE

\* Reconciler._update_instance_manager after a pass computed its updates:
\* nothing is sent for no update, and a reply that is not OK fails the assert
UpdateInstanceManager(pass_updates, next_pc) ==
    \E u \in {pass_updates} :
        \E r \in {update_instance_manager_state(im.instances, im.version, im.version, u)} :
            /\ read' = im
            /\ updates' = u
            /\ IF u = <<>> THEN im' = im /\ sync_pc' = next_pc
               ELSE IF r.code = "OK"
               THEN im' = [instances |-> r.instances, version |-> r.version]
                    /\ sync_pc' = next_pc
               ELSE im' = im /\ sync_pc' = "raised"
            /\ UNCHANGED <<sched_vars, observations, called, again>>

\* the driver calls sync_from; the call is a repeat when the last call returned
\* and nothing was observed since
SyncFrom ==
    /\ sync_pc \in {"ready", "returned", "raised"}
    /\ sync_pc' = "allocation"
    /\ again' = (sync_pc = "returned")
    /\ called' = im
    /\ read' = im
    /\ updates' = <<>>
    /\ UNCHANGED <<sched_vars, im, observations>>

HandleCloudInstanceAllocation ==
    /\ sync_pc = "allocation"
    /\ UpdateInstanceManager(
           handle_cloud_instance_allocation(im.instances,
                                            observations.non_terminated_cloud_instances,
                                            observations.cloud_provider_errors),
           "terminated")

HandleCloudInstanceTerminated ==
    /\ sync_pc = "terminated"
    /\ UpdateInstanceManager(
           handle_cloud_instance_terminated(im.instances,
                                            observations.non_terminated_cloud_instances,
                                            observations.cloud_provider_errors),
           "ray_status")

HandleRayStatusTransition ==
    /\ sync_pc = "ray_status"
    /\ UpdateInstanceManager(handle_ray_status_transition(im.instances, observations.ray_nodes),
                             "install_failed")

HandleRayInstallFailed ==
    /\ sync_pc = "install_failed"
    /\ UpdateInstanceManager(handle_ray_install_failed(im.instances,
                                                       observations.ray_install_errors),
                             "returned")

\* between two calls the driver observes the cloud provider, the ray cluster
\* and the installer anew
Observe ==
    /\ sync_pc \in {"returned", "raised"}
    /\ \E o \in ObservationsChoices :
           /\ o # observations
           /\ \/ o.ray_nodes = observations.ray_nodes
                 /\ o.non_terminated_cloud_instances = observations.non_terminated_cloud_instances
                 /\ o.cloud_provider_errors = observations.cloud_provider_errors
              \/ o.ray_nodes = observations.ray_nodes
                 /\ o.non_terminated_cloud_instances = observations.non_terminated_cloud_instances
                 /\ o.ray_install_errors = observations.ray_install_errors
              \/ o.ray_nodes = observations.ray_nodes
                 /\ o.cloud_provider_errors = observations.cloud_provider_errors
                 /\ o.ray_install_errors = observations.ray_install_errors
              \/ o.non_terminated_cloud_instances = observations.non_terminated_cloud_instances
                 /\ o.cloud_provider_errors = observations.cloud_provider_errors
                 /\ o.ray_install_errors = observations.ray_install_errors
           /\ observations' = o
    /\ sync_pc' = "ready"
    /\ read' = EmptyIM
    /\ updates' = <<>>
    /\ called' = EmptyIM
    /\ again' = FALSE
    /\ UNCHANGED <<sched_vars, im>>

SyncNext ==
    \/ SyncFrom
    \/ HandleCloudInstanceAllocation
    \/ HandleCloudInstanceTerminated
    \/ HandleRayStatusTransition
    \/ HandleRayInstallFailed
    \/ Observe

SyncSpec == SyncInit /\ [][SyncNext]_vars

(***************************************************************************)
(* Reconciler.sync_from beside another writer of the Instance Manager: each *)
(* pass is two steps, the read of _get_im_instances and the update of       *)
(* _update_instance_manager, and the other writer may act between them;     *)
(* the calls of sync_from are repeated under the same observations          *)
(***************************************************************************)

\* the position after the read of a pass
AfterRead ==
    [pass \in {"allocation", "terminated", "ray_status", "install_failed"} |->
        CASE pass = "allocation" -> "allocation_read"
          [] pass = "terminated" -> "terminated_read"
          [] pass = "ray_status" -> "ray_status_read"
          [] pass = "install_failed" -> "install_failed_read"]

\* the position after the update of a pass
AfterUpdate ==
    [pass \in {"allocation_read", "terminated_read", "ray_status_read",
               "install_failed_read"} |->
        CASE pass = "allocation_read" -> "terminated"
          [] pass = "terminated_read" -> "ray_status"
          [] pass = "ray_status_read" -> "install_failed"
          [] pass = "install_failed_read" -> "returned"]

\* the events a pass computes from the instances it read
PassUpdates(pass, instances) ==
    CASE pass = "allocation_read" ->
             handle_cloud_instance_allocation(instances,
                                              observations.non_terminated_cloud_instances,
                                              observations.cloud_provider_errors)
      [] pass = "terminated_read" ->
             handle_cloud_instance_terminated(instances,
                                              observations.non_terminated_cloud_instances,
                                              observations.cloud_provider_errors)
      [] pass = "ray_status_read" ->
             handle_ray_status_transition(instances, observations.ray_nodes)
      [] pass = "install_failed_read" ->
             handle_ray_install_failed(instances, observations.ray_install_errors)

\* Reconciler._get_im_instances at the start of a pass: the instances and the
\* version
GetIMInstances ==
    /\ sync_pc \in DOMAIN AfterRead
    /\ read' = im
    /\ sync_pc' = AfterRead[sync_pc]
    /\ UNCHANGED <<sched_vars, im, observations, updates, called, again>>

\* the rest of a pass: the events of the instances read are submitted with the
\* version read; nothing is sent for no event, and a reply that is not OK
\* fails the assert of _update_instance_manager, which leaves sync_from
SubmitUpdates ==
    /\ sync_pc \in DOMAIN AfterUpdate
    /\ \E pass_updates \in {PassUpdates(sync_pc, read.instances)} :
       \E r \in {update_instance_manager_state(im.instances, im.version, read.version,
                                                pass_updates)} :
           /\ updates' = pass_updates
           /\ IF pass_updates = <<>> THEN im' = im /\ sync_pc' = AfterUpdate[sync_pc]
              ELSE IF r.code = "OK"
              THEN /\ im' = [instances |-> r.instances, version |-> r.version]
                   /\ sync_pc' = AfterUpdate[sync_pc]
              ELSE im' = im /\ sync_pc' = "raised"
    /\ UNCHANGED <<sched_vars, observations, read, called, again>>

\* the transitions the other components of the autoscaler make (step_next):
\* the launch request, the ray install, the drain, the shutdown
WriterTransitions(status) ==
    CASE status = "QUEUED" -> {"REQUESTED"}
      [] status = "ALLOCATED" -> {"RAY_INSTALLING"}
      [] status = "RAY_RUNNING" -> {"RAY_STOPPING"}
      [] status = "RAY_STOPPED" -> {"TERMINATING"}
      [] OTHER -> {}

\* another writer updates the Instance Manager between the read and the update
\* of a pass: one transition of one instance, with the current version; the
\* Instance Manager records the time of a transition to REQUESTED, the latest
\* of all
ConcurrentWrite ==
    /\ sync_pc \in DOMAIN AfterUpdate
    /\ \E i \in DOMAIN im.instances :
       \E status \in WriterTransitions(im.instances[i].status) :
       \E r \in {update_instance_manager_state(
                     im.instances, im.version, im.version,
                     <<IMInstanceUpdateEvent(im.instances[i].instance_id, status, 0, "")>>)} :
           /\ r.code = "OK"
           /\ im' = [instances |->
                         [j \in DOMAIN r.instances |->
                             IF j = i /\ status = "REQUESTED"
                             THEN [r.instances[j] EXCEPT
                                      !.requested_ns = <<MaxIMInstances + 1>>]
                             ELSE r.instances[j]],
                     version |-> r.version]
    /\ UNCHANGED <<sched_vars, observations, sync_pc, read, updates, called, again>>

ConcurrentNext ==
    \/ SyncFrom
    \/ GetIMInstances
    \/ ConcurrentWrite
    \/ SubmitUpdates

ConcurrentSpec == SyncInit /\ [][ConcurrentNext]_vars

(***************************************************************************)
(* Reconciler.sync_from called again and again under the same observations *)
(***************************************************************************)

AllocationNext ==
    \/ SyncFrom
    \/ HandleCloudInstanceAllocation
    \/ HandleCloudInstanceTerminated
    \/ HandleRayStatusTransition
    \/ HandleRayInstallFailed

\* An instance of type t1 that is REQUESTED under a launch request, alone or
\* beside an instance of any type and status that was requested before it
AllocationIMChoices ==
    LET requested == IMInstance(1, "t1", InstanceShape("REQUESTED", FALSE, 1))
    IN {<<requested>>}
       \cup {<<requested, IMInstance(2, t, sh)>> : t \in {"t1", "t2"}, sh \in IMInstanceShapes}

\* observations of the cloud provider alone: no ray node and no install error
\* is reported
AllocationInit ==
    /\ SchedOff
    /\ \E instances \in AllocationIMChoices :
           im = [instances |-> instances, version |-> 0]
    /\ observations \in {o \in ObservationsChoices :
                             o.ray_nodes = <<>> /\ o.ray_install_errors = <<>>}
    /\ sync_pc = "ready"
    /\ read = EmptyIM
    /\ updates = <<>>
    /\ called = EmptyIM
    /\ again = FALSE

\* the driver keeps calling sync_from, and a call that has started runs on
AllocationSpec == AllocationInit /\ [][AllocationNext]_vars /\ WF_vars(AllocationNext)

(***************************************************************************)
(* Properties of schedule                                                  *)
(***************************************************************************)

\* the node is marked TO_TERMINATE with the cause
MarkedFor(node, cause) ==
    /\ node.status = "TO_TERMINATE"
    /\ ~IsNone(node.termination_request)
    /\ node.termination_request[1].cause = cause

\* how many times the request is committed over the nodes
Committed(ns, req) ==
    SeqSum([i \in DOMAIN ns |->
               Cardinality({j \in DOMAIN ns[i].sched_requests : ns[i].sched_requests[j] = req})])

\* C1: after schedule has returned, for every configured node type N the nodes
\* of type N that are not marked TO_TERMINATE (RUNNING, PENDING and TO_LAUNCH)
\* number at most max_worker_nodes(N), whatever the instances, minimum,
\* demand, gangs and constraints are.
C1_PerTypeCap ==
    pc = "done" =>
        \A t \in ConfigNames(request.node_type_configs) :
            cluster_shape(nodes, t)
                <= GetConfig(request.node_type_configs, t)[1].max_worker_nodes

\* C1 at work: t1 is launched up to its cap and demand is left infeasible
C1_Witness ==
    /\ pc = "done"
    /\ infeasible_requests # <<>>
    /\ \E i \in DOMAIN reply.to_launch : reply.to_launch[i].instance_type = "t1"
    /\ cluster_shape(nodes, "t1") = GetConfig(request.node_type_configs, "t1")[1].max_worker_nodes

\* C2: after a schedule call with max_num_nodes set to any value, the nodes not
\* marked TO_TERMINATE number at most max_num_nodes.
C2_GlobalCap ==
    (pc = "done" /\ ~IsNone(request.max_num_nodes)) =>
        Len(NonTerminating(nodes)) <= request.max_num_nodes[1]

\* C6: a gang is placed as a whole or not at all. The step that handles a gang
\* either returns the gang as infeasible and leaves the nodes exactly as they
\* were, or returns nothing and commits every member (after affinity fusion).
C6_GangAllOrNothing ==
    [][(pc = "gang" /\ gang_queue # <<>> /\ pc' = "gang") =>
          LET members == combine_requests_with_affinity(Head(gang_queue).requests)
          IN \/ /\ infeasible_gang_requests' = Append(infeasible_gang_requests, Head(gang_queue))
                /\ nodes' = nodes
             \/ /\ infeasible_gang_requests' = infeasible_gang_requests
                /\ \A i \in DOMAIN members :
                       Committed(nodes', members[i])
                           >= Committed(nodes, members[i])
                              + Cardinality({j \in DOMAIN members : members[j] = members[i]})]_vars

\* C6 at work: of two gangs one was rejected and the other committed on a node
C6_Witness ==
    /\ pc = "idle"
    /\ infeasible_gang_requests = <<BigAffinityGang>>
    /\ \E i \in DOMAIN nodes :
           /\ nodes[i].status = "TO_LAUNCH"
           /\ nodes[i].sched_requests = combine_requests_with_affinity(AffinityGang.requests)

\* C7: a cluster resource constraint is enforced as a whole. The step either
\* returns the constraint as infeasible and leaves the nodes exactly as they
\* were, so that to_launch is what it is without the constraint, or commits
\* every bundle, on nodes that are there or on added nodes that are TO_LAUNCH;
\* the later steps keep every TO_LAUNCH node and the reply launches them.
C7_ConstraintAtomic ==
    [][/\ (pc = "constraints" /\ pc' = "gang" /\ request.cluster_resource_constraints # <<>>) =>
            \/ /\ infeasible_constraints' = request.cluster_resource_constraints
               /\ nodes' = nodes
            \/ /\ infeasible_constraints' = <<>>
               /\ Len(nodes') >= Len(nodes)
               /\ Len(ToLaunch(nodes')) - Len(ToLaunch(nodes)) = Len(nodes') - Len(nodes)
               /\ SeqSum([i \in DOMAIN nodes' |-> Len(nodes'[i].sched_constraints)])
                      >= Len(ungroup_by_count(request.cluster_resource_constraints[1].min_bundles))
       /\ (pc \in {"gang", "idle"} /\ pc' # "raised") =>
            \A t \in ConfigNames(request.node_type_configs) :
                Len(OfType(ToLaunch(nodes'), t)) >= Len(OfType(ToLaunch(nodes), t))
       /\ (pc = "reply" /\ pc' = "done") =>
            /\ \A t \in ConfigNames(request.node_type_configs) :
                   Len(OfType(ToLaunch(nodes), t)) > 0 =>
                       \E i \in DOMAIN reply'.to_launch :
                           /\ reply'.to_launch[i].instance_type = t
                           /\ reply'.to_launch[i].count = Len(OfType(ToLaunch(nodes), t))
            /\ infeasible_constraints # <<>> =>
                   reply'.to_launch
                       = schedule([request EXCEPT !.cluster_resource_constraints = <<>>]).to_launch
      ]_vars

\* C7 at work: a constraint of which one bundle fits and another does not is
\* returned as infeasible, while demand is launched for
C7_Witness ==
    /\ pc = "done"
    /\ infeasible_constraints # <<>>
    /\ GetConfig(request.node_type_configs, "t1")[1].max_worker_nodes = 1
    /\ reply.to_launch # <<>>

\* C8: idle termination never leaves a node type below its min_worker_nodes:
\* after schedule, a type of which a node is marked TO_TERMINATE with cause IDLE
\* still has min_worker_nodes nodes that are not marked TO_TERMINATE.
C8_MinWorkersOverIdle ==
    pc = "done" =>
        \A t \in ConfigNames(request.node_type_configs) :
            (\E i \in DOMAIN nodes : nodes[i].node_type = t /\ MarkedFor(nodes[i], "IDLE"))
                => cluster_shape(nodes, t)
                       >= GetConfig(request.node_type_configs, t)[1].min_worker_nodes

\* C9: the idle-termination step marks a node TO_TERMINATE with cause IDLE
\* exactly when the node is RUNNING, holds no constraint bundle, idle_timeout_s
\* is set and idle_duration_ms > idle_timeout_s * 1000; every other node (idle
\* for exactly the timeout or less, PENDING, TO_LAUNCH, any node when no
\* timeout is set) is left as it is.
C9_IdleStrictBound ==
    [][(pc = "idle") =>
          /\ Len(nodes') = Len(nodes)
          /\ \A i \in DOMAIN nodes :
                 IF /\ nodes[i].status = "RUNNING"
                    /\ Len(nodes[i].sched_constraints) = 0
                    /\ ~IsNone(request.idle_timeout_s)
                    /\ nodes[i].idle_duration_ms > request.idle_timeout_s[1] * 1000
                 THEN MarkedFor(nodes'[i], "IDLE")
                 ELSE nodes'[i] = nodes[i]]_vars

\* C9 at work: of two RUNNING nodes the one idle for exactly the timeout
\* stays and the one idle for a millisecond more is terminated
C9_Witness ==
    /\ pc = "reply"
    /\ request.idle_timeout_s = Some(1)
    /\ \E i \in DOMAIN nodes : nodes[i].idle_duration_ms = 1000 /\ nodes[i].status = "RUNNING"
    /\ \E i \in DOMAIN nodes : nodes[i].idle_duration_ms = 1001 /\ MarkedFor(nodes[i], "IDLE")

\* C10: a node that holds a bundle of a cluster resource constraint is never
\* marked TO_TERMINATE with cause IDLE, however long it has been idle.
C10_ConstraintNodeNotIdled ==
    \A i \in DOMAIN nodes :
        Len(nodes[i].sched_constraints) > 0 => ~MarkedFor(nodes[i], "IDLE")

\* C10 at work: a node idle for longer than the timeout holds a constraint
\* bundle and is still RUNNING when schedule returns
C10_Witness ==
    /\ pc = "done"
    /\ request.idle_timeout_s = Some(1)
    /\ \E i \in DOMAIN nodes :
           /\ nodes[i].status = "RUNNING"
           /\ nodes[i].idle_duration_ms > 1000
           /\ Len(nodes[i].sched_constraints) > 0
           /\ Len(nodes[i].sched_requests) = 0

\* C11: schedule never raises: no assertion fails and no exception leaves the
\* call, whatever the request.
C11_NeverRaises == pc # "raised"

Packable(ns, node_type_configs, max_num_nodes, bundles) ==
    LET node_type_available == compute_available_node_types(ns, node_type_configs)
        kept == {i \in DOMAIN ns : ns[i].status # "TO_TERMINATE"}
        types == DOMAIN node_type_configs
        hosts == {<<"node", i, 1>> : i \in kept}
                 \cup {<<"new", t, k>> : t \in types, k \in 1..Len(bundles)}
        capacity(h) == IF h[1] = "node" THEN ns[h[2]].available_resources_for_constraints
                       ELSE node_type_configs[h[2]].resources
        fits(f, h) ==
            \A r \in DOMAIN ResourceNames :
                SumOver([j \in DOMAIN bundles |->
                            IF f[j] = h
                            THEN Get(bundles[j].resources_bundle, ResourceNames[r])
                            ELSE 0], DOMAIN bundles)
                    <= Get(capacity(h), ResourceNames[r])
        launched(f, t) == Cardinality({h \in Range(f) : h[1] = "new" /\ h[2] = t})
        within_caps(f) ==
            /\ \A t \in types :
                   launched(f, t) <= node_type_available[node_type_configs[t].name]
            /\ IsNone(max_num_nodes)
               \/ Cardinality({h \in Range(f) : h[1] = "new"}) = 0
               \/ Len(ns) + Cardinality({h \in Range(f) : h[1] = "new"}) <= max_num_nodes[1]
    IN \E f \in [DOMAIN bundles -> hosts] :
           within_caps(f) /\ \A h \in Range(f) : fits(f, h)

\* C14: a cluster resource constraint that schedule returns as infeasible
\* cannot be packed: no assignment of its bundles to the nodes the cluster keeps
\* and the nodes that may still be launched exists.
C14_InfeasibleIsUnpackable ==
    (pc = "done" /\ infeasible_constraints # <<>>) =>
        ~Packable(nodes, request.node_type_configs, request.max_num_nodes,
                  ungroup_by_count(infeasible_constraints[1].min_bundles))

\* C12: a placement never changes the value of a label of the node.  The first
\* request of the next gang, in the order _try_schedule tries them, is tried on
\* every node of the context: wherever it is placed (no anti-affinity match,
\* enough resources), the node has no value for the label names of the
\* request's constraints or has their values already.
C12_LabelNeverChanges ==
    (pc = "gang" /\ gang_queue # <<>>) =>
        LET requests ==
                SortRequests(combine_requests_with_affinity(Head(gang_queue).requests))
        IN \A i \in DOMAIN nodes : \A j \in DOMAIN requests[1].placement_constraints :
               LET node == nodes[i]
                   c == requests[1].placement_constraints[j]
               IN (/\ ~AntiAffinityViolated(node, requests[1])
                   /\ EnoughResources(node.available_resources,
                                      requests[1].resources_bundle))
                  => (c.label_name \notin DOMAIN node.labels
                      \/ node.labels[c.label_name] = c.label_value)

\* C23: step_next turns the reply of the scheduler into Instance Manager
\* state: after it, for each to_launch entry the Instance Manager holds as many
\* QUEUED instances of the entry's node type, under a launch request, as the
\* entry counts, and each instance named by a to_terminate entry is TERMINATING.
C23_StepNextAppliesReply ==
    pc = "stepped" =>
        /\ \A l \in DOMAIN reply.to_launch :
               Cardinality({i \in DOMAIN im.instances :
                               /\ im.instances[i].status = "QUEUED"
                               /\ im.instances[i].instance_type
                                      = reply.to_launch[l].instance_type
                               /\ im.instances[i].launch_request_id # 0})
                   = reply.to_launch[l].count
        /\ \A t \in DOMAIN reply.to_terminate :
               \E i \in DOMAIN im.instances :
                   /\ im.instances[i].instance_id = reply.to_terminate[t].instance_id
                   /\ im.instances[i].status = "TERMINATING"

\* the nodes of a type with the status
C24_Count(ns, node_type, status) ==
    Cardinality({i \in DOMAIN ns : ns[i].node_type = node_type /\ ns[i].status = status})

\* the nodes of a type that are not being terminated
C24_Live(ns, node_type) ==
    Cardinality({i \in DOMAIN ns :
                    ns[i].node_type = node_type /\ ns[i].status # "TO_TERMINATE"})

C24_Missing(min_worker_nodes, count) ==
    IF count < min_worker_nodes THEN min_worker_nodes - count ELSE 0

\* C24: the min-worker phase adds, for every node type, as many TO_LAUNCH nodes
\* as the type's non-terminating nodes (RUNNING, PENDING) are short of
\* min_worker_nodes, and leaves the other nodes as they are; and with no demand
\* and no binding cap the reply's to_launch has, for every type, exactly
\* max(0, min_worker_nodes - existing non-terminating nodes), with no entry for
\* a type at its minimum.
C24_MinWorkers ==
    [][/\ pc = "min_workers" =>
              /\ \A c \in DOMAIN request.node_type_configs :
                     LET config == request.node_type_configs[c]
                     IN C24_Count(nodes', config.name, "TO_LAUNCH")
                            = C24_Missing(config.min_worker_nodes,
                                          C24_Live(nodes, config.name))
              /\ Len(nodes') >= Len(nodes)
              /\ SubSeq(nodes', Len(nodes') - Len(nodes) + 1, Len(nodes')) = nodes
       /\ (/\ pc = "reply"
           /\ pc' = "done"
           /\ request.resource_requests = <<>>
           /\ request.gang_resource_requests = <<>>
           /\ request.cluster_resource_constraints = <<>>
           /\ IsNone(request.max_num_nodes)
           /\ \A c \in DOMAIN request.node_type_configs :
                  request.node_type_configs[c].min_worker_nodes
                      <= request.node_type_configs[c].max_worker_nodes)
          => \A c \in DOMAIN request.node_type_configs :
                 LET config == request.node_type_configs[c]
                     existing ==
                         Cardinality({i \in DOMAIN nodes :
                             /\ nodes[i].node_type = config.name
                             /\ nodes[i].status # "TO_LAUNCH"
                             /\ ~(/\ nodes[i].status = "TO_TERMINATE"
                                  /\ nodes[i].termination_request[1].cause = "OUTDATED")})
                     entries == {l \in DOMAIN reply'.to_launch :
                                    reply'.to_launch[l].instance_type = config.name}
                     missing == C24_Missing(config.min_worker_nodes, existing)
                 IN IF missing = 0 THEN entries = {}
                    ELSE /\ Cardinality(entries) = 1
                         /\ \A l \in entries : reply'.to_launch[l].count = missing]_vars

\* C24 at work: no demand, no binding cap, a type with a minimum of two nodes
\* and one node that is not being terminated: the reply launches one
C24_Witness ==
    /\ pc = "done"
    /\ request.resource_requests = <<>>
    /\ request.gang_resource_requests = <<>>
    /\ request.cluster_resource_constraints = <<>>
    /\ IsNone(request.max_num_nodes)
    /\ GetConfig(request.node_type_configs, "t1")[1].min_worker_nodes = 2
    /\ GetConfig(request.node_type_configs, "t1")[1].max_worker_nodes = 2
    /\ Len(request.current_instances) = 2
    /\ C24_Count(nodes, "t1", "TO_TERMINATE") = 1
    /\ C24_Count(nodes, "t1", "PENDING") = 1
    /\ reply.to_launch = <<[instance_type |-> "t1", count |-> 1]>>

\* the nodes of a type marked for termination with the cause
C25_Marked(ns, node_type, cause) ==
    {i \in DOMAIN ns :
        /\ ns[i].node_type = node_type
        /\ ns[i].status = "TO_TERMINATE"
        /\ ns[i].termination_request[1].cause = cause}

\* C25: the per-type cap phase marks, for every node type with c
\* non-terminating nodes and cap m, exactly max(0, c - m) nodes of the type
\* TO_TERMINATE with cause MAX_NUM_NODE_PER_TYPE and max_num_nodes_per_type = m,
\* none for a type at or under its cap; the nodes marked before keep their
\* cause, and no node is added or lost.
C25_PerTypeEviction ==
    [][pc = "max_workers_per_type" =>
          /\ Len(nodes') = Len(nodes)
          /\ \A c \in DOMAIN request.node_type_configs :
                 LET config == request.node_type_configs[c]
                     live == C24_Live(nodes, config.name)
                     marked == C25_Marked(nodes', config.name, "MAX_NUM_NODE_PER_TYPE")
                 IN /\ Cardinality(marked)
                           = IF live > config.max_worker_nodes
                             THEN live - config.max_worker_nodes ELSE 0
                    /\ \A i \in marked :
                           nodes'[i].termination_request[1].max_num_nodes_per_type
                               = config.max_worker_nodes
                    /\ C25_Marked(nodes, config.name, "MAX_NUM_NODE_PER_TYPE") = {}
                    /\ \A cause \in {"OUTDATED", "MAX_NUM_NODES", "IDLE"} :
                           Cardinality(C25_Marked(nodes', config.name, cause))
                               = Cardinality(C25_Marked(nodes, config.name, cause))
                    /\ C24_Live(nodes', config.name) + Cardinality(marked) = live]_vars

\* node a goes after node b in the termination order: a runs ray and b does
\* not; or both do or both do not, and a has been idle for a shorter time, or
\* for the same time with a higher average utilization
C26_After(a, b) ==
    LET ra == a.ray_node_id # 0
        rb == b.ray_node_id # 0
    IN \/ ra /\ ~rb
       \/ /\ ra = rb
          /\ \/ a.idle_duration_ms < b.idle_duration_ms
             \/ /\ a.idle_duration_ms = b.idle_duration_ms
                /\ FracLess(TerminationAvgUtil(b), TerminationAvgUtil(a))

\* C26: of the candidates of a cap phase, no node selected for termination
\* goes after a node that is kept, in the order (running ray, -idle duration,
\* average utilization): per node type in the per-type phase, over all nodes
\* in the global phase.
C26_TerminationOrder ==
    [][/\ pc = "max_workers_per_type" =>
              \A i, j \in DOMAIN nodes' :
                  (/\ nodes'[i].status = "TO_TERMINATE"
                   /\ nodes'[i].termination_request[1].cause = "MAX_NUM_NODE_PER_TYPE"
                   /\ nodes'[j].status # "TO_TERMINATE"
                   /\ nodes'[j].node_type = nodes'[i].node_type)
                  => ~C26_After(nodes'[i], nodes'[j])
       /\ pc = "max_workers_global" =>
              \A i, j \in DOMAIN nodes' :
                  (/\ nodes'[i].status = "TO_TERMINATE"
                   /\ nodes'[i].termination_request[1].cause = "MAX_NUM_NODES"
                   /\ nodes'[j].status # "TO_TERMINATE")
                  => ~C26_After(nodes'[i], nodes'[j])]_vars

\* C26 at work: of two running nodes of a type, the second of the request has
\* been idle for longer; the per-type cap has selected it and kept the first
C26_Witness ==
    /\ pc = "max_workers_global"
    /\ \E i, j \in DOMAIN nodes :
           /\ nodes[i].status = "TO_TERMINATE"
           /\ nodes[i].termination_request[1].cause = "MAX_NUM_NODE_PER_TYPE"
           /\ nodes[j].status = "RUNNING"
           /\ nodes[j].node_type = nodes[i].node_type
           /\ nodes[i].im_instance_id = 2
           /\ nodes[j].im_instance_id = 1
           /\ nodes[i].idle_duration_ms > nodes[j].idle_duration_ms

\* the nodes marked for termination with the cause
C27_Marked(ns, cause) ==
    {i \in DOMAIN ns :
        ns[i].status = "TO_TERMINATE" /\ ns[i].termination_request[1].cause = cause}

\* C27: when max_num_nodes is set and n nodes are non-terminating after the
\* per-type phase, the global cap phase marks exactly max(0, n - max_num_nodes)
\* of them TO_TERMINATE with cause MAX_NUM_NODES; the nodes marked by the
\* outdated and per-type phases are not counted, not selected again, and keep
\* their cause.
C27_GlobalEviction ==
    [][(pc = "max_workers_global" /\ ~IsNone(request.max_num_nodes)) =>
          LET n == Cardinality({i \in DOMAIN nodes : nodes[i].status # "TO_TERMINATE"})
          IN /\ Len(nodes') = Len(nodes)
             /\ Cardinality(C27_Marked(nodes', "MAX_NUM_NODES"))
                    = IF n > request.max_num_nodes[1]
                      THEN n - request.max_num_nodes[1] ELSE 0
             /\ \A i \in C27_Marked(nodes', "MAX_NUM_NODES") :
                    nodes'[i].termination_request[1].max_num_nodes
                        = request.max_num_nodes[1]
             /\ \A cause \in {"OUTDATED", "MAX_NUM_NODE_PER_TYPE"} :
                    Cardinality(C27_Marked(nodes', cause))
                        = Cardinality(C27_Marked(nodes, cause))]_vars

\* the running node's type declares a launch config hash that is not the node's
C28_Outdated(node) ==
    \E c \in DOMAIN request.node_type_configs :
        /\ request.node_type_configs[c].name = node.node_type
        /\ request.node_type_configs[c].launch_config_hash # ""
        /\ request.node_type_configs[c].launch_config_hash # node.launch_config_hash

RECURSIVE C29_Total(_, _)
C29_Total(counts, keep) ==
    IF counts = <<>> THEN 0
    ELSE (IF keep[1] THEN Head(counts) ELSE 0) + C29_Total(Tail(counts), Tail(keep))

\* the nodes to_launch asks for, of the type
C29_Launched(to_launch, node_type) ==
    C29_Total([l \in DOMAIN to_launch |-> to_launch[l].count],
              [l \in DOMAIN to_launch |-> to_launch[l].instance_type = node_type])

\* how many times the request is in the grouped list
C29_Times(by_count, req) ==
    C29_Total([l \in DOMAIN by_count |-> by_count[l].count],
              [l \in DOMAIN by_count |-> by_count[l].request = req])

\* C29: schedule on the request with the entries of resource_requests in any
\* other order returns too, with the same number of nodes to launch of every
\* type and the same infeasible resource requests, each as many times.
C29_OrderIndependent ==
    pc = "done" =>
        \A p \in Permutations(DOMAIN request.resource_requests) :
            LET permuted == [i \in DOMAIN request.resource_requests |->
                                request.resource_requests[p[i]]]
                same(other) ==
                    /\ ~other.raised
                    /\ \A c \in DOMAIN request.node_type_configs :
                           C29_Launched(other.to_launch, request.node_type_configs[c].name)
                               = C29_Launched(reply.to_launch,
                                              request.node_type_configs[c].name)
                    /\ \A l \in DOMAIN request.resource_requests :
                           C29_Times(other.infeasible_resource_requests,
                                     request.resource_requests[l].request)
                               = C29_Times(group_by_count(infeasible_requests),
                                           request.resource_requests[l].request)
            IN same(schedule([request EXCEPT !.resource_requests = permuted]))

\* the requests placed on the nodes that are being terminated
C30_OnTerminating(ns) ==
    C29_Total([i \in DOMAIN ns |-> Len(ns[i].sched_requests)],
              [i \in DOMAIN ns |-> ns[i].status = "TO_TERMINATE"])

\* C30: existing capacity is used before launching, and only the capacity of
\* nodes that stay.  In a step of the bin-packer on gang or resource requests,
\* the nodes it adds come after the nodes of the context; a request placed on
\* an added node fits on none of the others as the step leaves them (so it fit
\* on none when they were tried); and no request is placed on a node that is
\* being terminated: a request that fits on no running or pending node goes to
\* a new node or is infeasible.
C30_ExistingFirst ==
    [][(pc = "gang" /\ pc' # "raised") =>
          /\ Len(nodes') >= Len(nodes)
          /\ \A n \in (Len(nodes) + 1)..Len(nodes') :
                 /\ nodes'[n].status = "TO_LAUNCH"
                 /\ \A r \in DOMAIN nodes'[n].sched_requests :
                    \A e \in 1..Len(nodes) :
                        ~(/\ ~AntiAffinityViolated(nodes'[e], nodes'[n].sched_requests[r])
                          /\ EnoughResources(
                                 nodes'[e].available_resources,
                                 nodes'[n].sched_requests[r].resources_bundle))
          /\ C30_OnTerminating(nodes') = C30_OnTerminating(nodes)]_vars

\* the (label_name, label_value) pairs a request carries with constraint kind k
C31_Pairs(req, k) ==
    {<<req.placement_constraints[i].label_name, req.placement_constraints[i].label_value>> :
        i \in {j \in DOMAIN req.placement_constraints : req.placement_constraints[j].kind = k}}

\* C31: anti-affinity separation.  On every node, a committed request with an
\* anti-affinity constraint on a pair (label_name, label_value) comes after no
\* committed request that put that pair into the node's labels: no node holds
\* two requests with anti-affinity on one pair, and none was committed to a
\* node already labelled with the pair.
C31_AntiAffinitySeparation ==
    \A n \in DOMAIN nodes :
        \A i \in DOMAIN nodes[n].sched_requests :
            \A j \in 1..(i - 1) :
                C31_Pairs(nodes[n].sched_requests[i], "anti_affinity")
                \cap (C31_Pairs(nodes[n].sched_requests[j], "anti_affinity")
                      \cup C31_Pairs(nodes[n].sched_requests[j], "affinity")) = {}

\* the two members of a gang with one anti-affinity pair sit on two nodes
C31_Witness ==
    /\ pc = "done"
    /\ \E a, b \in DOMAIN nodes :
          /\ a # b
          /\ \E i \in DOMAIN nodes[a].sched_requests, j \in DOMAIN nodes[b].sched_requests :
                C31_Pairs(nodes[a].sched_requests[i], "anti_affinity")
                \cap C31_Pairs(nodes[b].sched_requests[j], "anti_affinity") # {}

\* one round of _sched_best_node: no node of the pool that takes at least one
\* of the requests scores higher than the node that is committed
C32_BestIsMax(requests, pool, is_constraint) ==
    LET maximal(b) ==
            b.raised \/ IsNone(b.best_node)
            \/ \A idx \in DOMAIN pool :
                  LET beaten(t) ==
                          Len(t.unschedulable_requests) < Len(requests)
                          => ~ScoreLess(compute_score(b.best_node[1]), t.score)
                  IN beaten(try_schedule(pool[idx], requests, is_constraint))
    IN maximal(sched_best_node(requests, pool, is_constraint))

\* the rounds of _try_schedule over the existing nodes
RECURSIVE C32_ExistingRounds(_, _)
C32_ExistingRounds(requests, pool) ==
    IF requests = <<>> \/ pool = <<>> THEN TRUE
    ELSE LET next(b) ==
                 b.raised \/ IsNone(b.best_node)
                 \/ C32_ExistingRounds(b.requests, b.nodes)
         IN C32_BestIsMax(requests, pool, FALSE)
            /\ next(sched_best_node(requests, pool, FALSE))

\* the rounds of _try_schedule over the nodes that can be launched
RECURSIVE C32_NewRounds(_, _, _, _)
C32_NewRounds(requests, pool, available, launched) ==
    IF requests = <<>> \/ pool = <<>>
       \/ MaxNumNodesReached(request.max_num_nodes, launched)
    THEN TRUE
    ELSE LET next(b) ==
                 b.raised \/ IsNone(b.best_node)
                 \/ LET t == b.best_node[1].node_type
                        left == [available EXCEPT ![t] = @ - 1]
                    IN C32_NewRounds(
                           b.requests,
                           IF left[t] > 0
                           THEN Append(b.nodes,
                                       from_node_config(
                                           GetConfig(request.node_type_configs, t)[1],
                                           "TO_LAUNCH", 0))
                           ELSE b.nodes,
                           left, Append(launched, b.best_node[1]))
         IN C32_BestIsMax(requests, pool, FALSE)
            /\ next(sched_best_node(requests, pool, FALSE))

\* every round of the resource request phase commits a node of maximal score
C32_Rounds ==
    LET available == compute_available_node_types(nodes, request.node_type_configs)
        new(e) ==
            e.raised
            \/ C32_NewRounds(e.requests_to_sched,
                             initial_node_pools(request.node_type_configs, available, 1),
                             available, e.target_nodes \o e.existing_nodes)
        requests == SortRequests(ungroup_by_count(request.resource_requests))
    IN /\ C32_ExistingRounds(requests, nodes)
       /\ new(existing_nodes_loop(requests, nodes, <<>>, FALSE))

\* a node type without GPU that holds the bundle can still be launched
C32_CanHost(bundle, ns) ==
    /\ ~MaxNumNodesReached(request.max_num_nodes, ns)
    /\ \E i \in DOMAIN request.node_type_configs :
          LET config == request.node_type_configs[i]
          IN /\ Get(config.resources, "GPU") = 0
             /\ EnoughResources(config.resources, bundle)
             /\ compute_available_node_types(ns, request.node_type_configs)[config.name] > 0

C32_HasGpuRequest(node) ==
    \E i \in DOMAIN node.sched_requests : "GPU" \in DOMAIN node.sched_requests[i].resources_bundle

\* a request without GPU on the launched GPU node n, which a node type without
\* GPU could have hosted
C32_OnGpuNode(ns, n) ==
    /\ Get(ns[n].total_resources, "GPU") > 0
    /\ \E i \in DOMAIN ns[n].sched_requests :
          /\ "GPU" \notin DOMAIN ns[n].sched_requests[i].resources_bundle
          /\ C32_CanHost(ns[n].sched_requests[i].resources_bundle, ns)

\* C32: best-node selection.  In every round of the resource request phase
\* the committed node has a maximal score among the nodes that take at least
\* one request; with GPU conservation, a GPU node launched by the phase that
\* holds no GPU request holds no request that a node type without GPU, still
\* launchable, could host.
C32_BestNode ==
    [][(pc = "gang" /\ gang_queue = <<>> /\ pc' = "idle") =>
          /\ C32_Rounds
          /\ \A n \in (Len(nodes) + 1)..Len(nodes') :
                ~C32_HasGpuRequest(nodes'[n]) => ~C32_OnGpuNode(nodes', n)]_vars

\* C32 as stated: no request without GPU is placed on a launched GPU node when
\* a node type without GPU can host it, whatever else the GPU node holds
C32_NeverOnGpuNode ==
    [][(pc = "gang" /\ gang_queue = <<>> /\ pc' = "idle") =>
          /\ C32_Rounds
          /\ \A n \in (Len(nodes) + 1)..Len(nodes') : ~C32_OnGpuNode(nodes', n)]_vars

\* two rounds chose the CPU type over the GPU type that would have held both
\* requests
C32_Witness ==
    /\ pc = "done"
    /\ request \in GpuScoreRequests
    /\ Len(request.resource_requests) = 1
    /\ Len(nodes) = 2
    /\ \A n \in DOMAIN nodes :
          /\ nodes[n].node_type = "t1"
          /\ nodes[n].status = "TO_LAUNCH"
          /\ Len(nodes[n].sched_requests) = 1

\* the amount of resource r in the bundles of the requests
C33_Committed(requests, r) ==
    C29_Total([i \in DOMAIN requests |-> Get(requests[i].resources_bundle, r)],
              [i \in DOMAIN requests |-> TRUE])

\* C33: capacity is never over-committed.  At every point of a schedule call,
\* on every node, neither pool is negative in any resource, and the requests
\* committed to the node ask in total for no more of a resource than the node
\* has.
C33_NeverOverCommitted ==
    \A n \in DOMAIN nodes :
        /\ \A r \in DOMAIN nodes[n].available_resources :
              nodes[n].available_resources[r] >= 0
        /\ \A r \in DOMAIN nodes[n].available_resources_for_constraints :
              nodes[n].available_resources_for_constraints[r] >= 0
        /\ \A r \in {ResourceNames[i] : i \in DOMAIN ResourceNames} :
              C33_Committed(nodes[n].sched_requests, r) <= Get(nodes[n].total_resources, r)

\* a node filled to the last unit by two requests
C33_Witness ==
    \E n \in DOMAIN nodes :
        /\ Len(nodes[n].sched_requests) = 2
        /\ C33_Committed(nodes[n].sched_requests, "CPU") = nodes[n].total_resources["CPU"]
        /\ nodes[n].available_resources["CPU"] = 0

\* the pool of real demand and the pool of constraints of the nodes ns
C34_RealPool(ns) ==
    [i \in DOMAIN ns |-> <<ns[i].im_instance_id, ns[i].node_type,
                           ns[i].available_resources, ns[i].sched_requests>>]

C34_ConstraintPool(ns) ==
    [i \in DOMAIN ns |-> <<ns[i].im_instance_id, ns[i].node_type,
                           ns[i].available_resources_for_constraints,
                           ns[i].sched_constraints>>]

\* the same entries, in any order
C34_SameEntries(a, b) ==
    /\ Len(a) = Len(b)
    /\ \A i \in DOMAIN a :
          Cardinality({j \in DOMAIN a : a[j] = a[i]}) = Cardinality({j \in DOMAIN b : b[j] = a[i]})

\* C34: constraints and real demand are accounted in separate pools.  The
\* constraint phase leaves available_resources and sched_requests of every node
\* as they were, and the nodes it adds have their whole capacity available and
\* no request; the gang and request phases leave
\* available_resources_for_constraints and sched_constraints as they were, and
\* the nodes they add have their whole capacity in the constraint pool and no
\* constraint.
C34_SeparatePools ==
    [][/\ (pc = "constraints" /\ pc' = "gang") =>
             /\ Len(nodes') >= Len(nodes)
             /\ C34_SameEntries(C34_RealPool(SubSeq(nodes', 1, Len(nodes))),
                                C34_RealPool(nodes))
             /\ \A n \in (Len(nodes) + 1)..Len(nodes') :
                   /\ nodes'[n].available_resources = nodes'[n].total_resources
                   /\ nodes'[n].sched_requests = <<>>
       /\ (pc = "gang" /\ pc' \in {"gang", "idle"}) =>
             /\ Len(nodes') >= Len(nodes)
             /\ C34_SameEntries(C34_ConstraintPool(SubSeq(nodes', 1, Len(nodes))),
                                C34_ConstraintPool(nodes))
             /\ \A n \in (Len(nodes) + 1)..Len(nodes') :
                   /\ nodes'[n].available_resources_for_constraints = nodes'[n].total_resources
                   /\ nodes'[n].sched_constraints = <<>>]_vars

\* a node that holds a constraint and a request, each taken from its own pool
C34_Witness ==
    \E n \in DOMAIN nodes :
        /\ nodes[n].sched_constraints # <<>>
        /\ nodes[n].sched_requests # <<>>
        /\ nodes[n].available_resources # nodes[n].available_resources_for_constraints

\* how many times the request req is committed on the nodes ns
C35_Commits(ns, req) ==
    C29_Total([i \in DOMAIN ns |->
                  Cardinality({j \in DOMAIN ns[i].sched_requests :
                                  ns[i].sched_requests[j] = req})],
              [i \in DOMAIN ns |-> TRUE])

C35_Times(requests, req) == Cardinality({i \in DOMAIN requests : requests[i] = req})

\* C35: demand is conserved.  The resource request phase commits each input
\* request, counted as often as the input has it, to one node once or lists it
\* as infeasible: for every request, the commits the phase adds and the
\* infeasible entries together are as many as the input has.
C35_DemandConserved ==
    [][(pc = "gang" /\ gang_queue = <<>> /\ pc' = "idle") =>
          LET input == ungroup_by_count(request.resource_requests)
          IN \A req \in {input[i] : i \in DOMAIN input}
                        \cup {infeasible_requests'[i] : i \in DOMAIN infeasible_requests'}
                        \cup UNION {{nodes'[n].sched_requests[j] :
                                        j \in DOMAIN nodes'[n].sched_requests} :
                                    n \in DOMAIN nodes'} :
                C35_Commits(nodes', req) - C35_Commits(nodes, req)
                + C35_Times(infeasible_requests', req)
                = C35_Times(input, req)]_vars

\* the requests and constraint bundles held by the nodes that are being terminated
C36_HeldByTerminating(ns) ==
    C29_Total([i \in DOMAIN ns |-> Len(ns[i].sched_requests) + Len(ns[i].sched_constraints)],
              [i \in DOMAIN ns |-> ns[i].status = "TO_TERMINATE"])

\* C36: the constraint, gang and request phases commit nothing to a node that
\* is marked TO_TERMINATE: the nodes that are
\* being terminated hold after the phase what they held before.
C36_NoCommitOnTerminating ==
    [][(pc \in {"constraints", "gang"} /\ pc' \in {"gang", "idle"}) =>
          C36_HeldByTerminating(nodes') = C36_HeldByTerminating(nodes)]_vars

\* C37: a node that holds a resource request or a gang member committed in
\* this call is not terminated for idleness in this call.
C37_NoIdleTerminationUnderDemand ==
    \A n \in DOMAIN nodes :
        (/\ nodes[n].status = "TO_TERMINATE"
         /\ ~IsNone(nodes[n].termination_request)
         /\ nodes[n].termination_request[1].cause = "IDLE")
        => nodes[n].sched_requests = <<>>

\* the termination request names an instance of current_instances
C38_FromCurrentInstances(termination_request) ==
    \E i \in DOMAIN request.current_instances :
        LET instance == request.current_instances[i]
        IN \/ /\ ~IsNone(instance.im_instance)
              /\ termination_request.instance_id > 0
              /\ instance.im_instance[1].instance_id = termination_request.instance_id
           \/ /\ ~IsNone(instance.ray_node)
              /\ termination_request.ray_node_id > 0
              /\ instance.ray_node[1].node_id = termination_request.ray_node_id

\* C38: launch and termination decisions are disjoint and well-formed.  Every
\* entry of to_terminate names an instance of current_instances, so no node
\* created during the call is terminated; to_launch has one entry per node type
\* at most, and its count, at least 1, is the number of nodes of the type that
\* are to be launched.
C38_ReplyWellFormed ==
    pc = "done" =>
        /\ \A i \in DOMAIN reply.to_terminate :
              C38_FromCurrentInstances(reply.to_terminate[i])
        /\ \A i, j \in DOMAIN reply.to_launch :
              reply.to_launch[i].instance_type = reply.to_launch[j].instance_type => i = j
        /\ \A i \in DOMAIN reply.to_launch :
              /\ reply.to_launch[i].count >= 1
              /\ reply.to_launch[i].count
                 = Cardinality({n \in DOMAIN nodes :
                                   /\ nodes[n].status = "TO_LAUNCH"
                                   /\ nodes[n].node_type = reply.to_launch[i].instance_type})

\* the node was built from an instance of current_instances
C39_OfInstance(node) == node.im_instance_id > 0 \/ node.ray_node_id > 0

\* the node n of ns is in ms, marked as it is in ns
C39_Kept(ns, n, ms) ==
    \E m \in DOMAIN ms :
        /\ ms[m].im_instance_id = ns[n].im_instance_id
        /\ ms[m].ray_node_id = ns[n].ray_node_id
        /\ ms[m].status = "TO_TERMINATE"
        /\ ms[m].termination_request = ns[n].termination_request

\* C39: an instance is terminated at most once and for one cause.  A node of
\* current_instances that a phase has marked TO_TERMINATE is in the context
\* after every later phase, with the termination request it was given; and the
\* reply names no instance twice.
C39_TerminatedOnce ==
    [][/\ (pc \in {"min_workers", "max_workers_per_type", "max_workers_global",
                   "constraints", "gang", "idle"}) =>
             \A n \in DOMAIN nodes :
                 (C39_OfInstance(nodes[n]) /\ nodes[n].status = "TO_TERMINATE")
                 => C39_Kept(nodes, n, nodes')
       /\ (pc = "reply" /\ pc' = "done") =>
             \A i, j \in DOMAIN reply'.to_terminate :
                 (/\ reply'.to_terminate[i].instance_id = reply'.to_terminate[j].instance_id
                  /\ reply'.to_terminate[i].ray_node_id = reply'.to_terminate[j].ray_node_id
                  /\ reply'.to_terminate[i].instance_id + reply'.to_terminate[i].ray_node_id > 0)
                 => i = j]_vars

\* a reply that terminates two instances, one as outdated and one for another
\* cause
C39_Witness ==
    /\ pc = "done"
    /\ \E i, j \in DOMAIN reply.to_terminate :
          /\ reply.to_terminate[i].cause = "OUTDATED"
          /\ reply.to_terminate[j].cause # "OUTDATED"
          /\ reply.to_terminate[i].instance_id > 0
          /\ reply.to_terminate[j].instance_id > 0

(***************************************************************************)
(* Properties of sync_from                                                 *)
(***************************************************************************)

\* C3: every update event a pass of sync_from submits moves its instance to a
\* status strictly downstream of the status the pass read for it: never to the
\* same status, an upstream status or a status that is not reachable from it.
C3_StrictlyDownstream ==
    \A i \in DOMAIN updates :
        updates[i].new_instance_status
            \in get_reachable_statuses(InstanceById(read.instances, updates[i].instance_id).status)

\* C4: a call of sync_from that repeats the last call, which returned, under
\* the same observations submits no update event and leaves every instance's
\* status and binding and the version as they were.
C4_SecondSyncIsNoOp == again => (updates = <<>> /\ im = called)

\* C15: when sync_from returns, every instance that was bound, at the call, to a
\* cloud instance that is not among the non-terminated cloud instances is
\* TERMINATED.
C15_GoneCloudInstanceTerminated ==
    sync_pc = "returned" =>
        \A i \in DOMAIN called.instances :
            LET instance == called.instances[i]
            IN (/\ instance.cloud_instance_id # 0
                /\ \A c \in DOMAIN observations.non_terminated_cloud_instances :
                       observations.non_terminated_cloud_instances[c].cloud_instance_id
                           # instance.cloud_instance_id)
               => InstanceById(im.instances, instance.instance_id).status = "TERMINATED"

\* C16: when sync_from returns, every instance that was TERMINATING at the call
\* and whose cloud instance has a TerminateNodeError among the provider errors
\* is TERMINATION_FAILED.
C16_TerminationFailureSurfaced ==
    sync_pc = "returned" =>
        \A i \in DOMAIN called.instances :
            LET instance == called.instances[i]
            IN (/\ instance.status = "TERMINATING"
                /\ \E e \in DOMAIN observations.cloud_provider_errors :
                       /\ observations.cloud_provider_errors[e].kind = "terminate"
                       /\ observations.cloud_provider_errors[e].cloud_instance_id
                              = instance.cloud_instance_id)
               => InstanceById(im.instances, instance.instance_id).status
                      = "TERMINATION_FAILED"

\* instance i awaits allocation and an unassigned cloud instance of its type is
\* reported
C40_Waiting(i) ==
    /\ i \in DOMAIN im.instances
    /\ im.instances[i].status = "REQUESTED"
    /\ im.instances[i].launch_request_id # 0
    /\ \E c \in DOMAIN observations.non_terminated_cloud_instances :
          /\ observations.non_terminated_cloud_instances[c].node_type
             = im.instances[i].instance_type
          /\ \A j \in DOMAIN im.instances :
                im.instances[j].cloud_instance_id
                # observations.non_terminated_cloud_instances[c].cloud_instance_id

\* C40: allocation makes progress.  Under sync_from calls that keep coming with
\* the same observations, an instance that is REQUESTED under a launch request
\* while an unassigned cloud instance of its type is reported is ALLOCATED in
\* the end, unless the unassigned cloud instances of its type have all been
\* given to other instances.
C40_AllocationProgress ==
    \A i \in 1..2 :
        C40_Waiting(i) ~> (i \in DOMAIN im.instances /\ ~C40_Waiting(i))

\* the cloud instances of a type that no instance is bound to
UnassignedOfType(instances, cloud_instances, node_type) ==
    {c \in DOMAIN cloud_instances :
        /\ cloud_instances[c].node_type = node_type
        /\ \A i \in DOMAIN instances :
               instances[i].cloud_instance_id # cloud_instances[c].cloud_instance_id}

\* C17: after an allocation pass, every instance that carried a
\* launch_request_id, had no unassigned cloud instance of its type, and for which
\* the provider errors hold a LaunchNodeError of its request id and its node
\* type, has received the update to ALLOCATION_FAILED with that error's details,
\* whatever other errors the list holds.
C17_LaunchErrorPerNodeType ==
    sync_pc = "terminated" =>
        \A i \in DOMAIN read.instances : \A e \in DOMAIN observations.cloud_provider_errors :
            LET instance == read.instances[i]
                error == observations.cloud_provider_errors[e]
            IN (/\ instance.launch_request_id # 0
                /\ UnassignedOfType(read.instances,
                                    observations.non_terminated_cloud_instances,
                                    instance.instance_type) = {}
                /\ error.kind = "launch"
                /\ error.request_id = instance.launch_request_id
                /\ error.node_type = instance.instance_type)
               => \E u \in DOMAIN updates :
                      /\ updates[u].instance_id = instance.instance_id
                      /\ updates[u].new_instance_status = "ALLOCATION_FAILED"
                      /\ updates[u].details = error.details

\* C18: the allocation pass emits ALLOCATED only for an instance that is QUEUED
\* or REQUESTED and ALLOCATION_FAILED only for an instance that is REQUESTED; an
\* instance in any other status receives no update of the pass and no cloud
\* instance.
C18_OnlyAwaitingAllocation ==
    [][sync_pc = "allocation" =>
          \A u \in DOMAIN updates' :
              LET status == InstanceById(im.instances, updates'[u].instance_id).status
              IN /\ status \in {"QUEUED", "REQUESTED"}
                 /\ updates'[u].new_instance_status = "ALLOCATION_FAILED"
                        => status = "REQUESTED"]_vars

\* an instance awaiting allocation: REQUESTED under a launch request, not bound
AwaitingAllocation(instance) ==
    /\ instance.status = "REQUESTED"
    /\ instance.launch_request_id # 0
    /\ instance.cloud_instance_id = 0

C19_Allocated(instance) ==
    \E u \in DOMAIN updates :
        /\ updates[u].instance_id = instance.instance_id
        /\ updates[u].new_instance_status = "ALLOCATED"

C20_Reconciled(ray_status) ==
    IF ray_status \in {"RUNNING", "IDLE"} THEN "RAY_RUNNING"
    ELSE IF ray_status = "DRAINING" THEN "RAY_STOPPING"
    ELSE IF ray_status = "DEAD" THEN "RAY_STOPPED"
    ELSE ""

\* the ray node calls for an update of the instance: the node runs on the
\* instance's cloud instance, its status is recognized, and the instance is not
\* in the reconciled status nor downstream of it
C20_Due(ray_node, instance) ==
    /\ ray_node.instance_id # 0
    /\ ray_node.instance_id = instance.cloud_instance_id
    /\ C20_Reconciled(ray_node.status) # ""
    /\ instance.status # C20_Reconciled(ray_node.status)
    /\ instance.status \notin get_reachable_statuses(C20_Reconciled(ray_node.status))

C21_InstallFailed ==
    [][sync_pc = "install_failed" =>
          /\ Len(im'.instances) = Len(im.instances)
          /\ \A u \in DOMAIN updates' :
                 \E i \in DOMAIN im.instances :
                     im.instances[i].instance_id = updates'[u].instance_id
          /\ \A i \in DOMAIN im.instances :
                 LET instance == im.instances[i]
                     errors == {e \in DOMAIN observations.ray_install_errors :
                                   observations.ray_install_errors[e].im_instance_id
                                       = instance.instance_id}
                 IN IF instance.status = "RAY_INSTALLING" /\ errors # {}
                    THEN /\ im'.instances[i]
                                = [instance EXCEPT !.status = "RAY_INSTALL_FAILED"]
                         /\ \E u \in DOMAIN updates' : \E e \in errors :
                                /\ updates'[u].instance_id = instance.instance_id
                                /\ updates'[u].new_instance_status = "RAY_INSTALL_FAILED"
                                /\ updates'[u].details
                                       = observations.ray_install_errors[e].details
                    ELSE /\ im'.instances[i] = instance
                         /\ \A u \in DOMAIN updates' :
                                updates'[u].instance_id # instance.instance_id]_vars

\* C21 at work: an install error names a RAY_INSTALLING instance and an unknown
\* instance; the pass has moved the instance to RAY_INSTALL_FAILED
C21_Witness ==
    /\ sync_pc = "returned"
    /\ Len(updates) = 1
    /\ updates[1].new_instance_status = "RAY_INSTALL_FAILED"
    /\ InstanceById(read.instances, updates[1].instance_id).status = "RAY_INSTALLING"
    /\ InstanceById(im.instances, updates[1].instance_id).status = "RAY_INSTALL_FAILED"
    /\ \E e \in DOMAIN observations.ray_install_errors :
           \A i \in DOMAIN im.instances :
               im.instances[i].instance_id
                   # observations.ray_install_errors[e].im_instance_id

\* C22: a pass submits its events with the version it read; when another
\* writer has changed the Instance Manager since that read, the batch is
\* rejected as a whole, no instance changes, and only that pass is given up:
\* sync_from goes on with the next pass.
C22_OnlyCurrentPassAborted ==
    [][(/\ sync_pc \in DOMAIN AfterUpdate
        /\ sync_pc' # sync_pc
        /\ im.version # read.version
        /\ updates' # <<>>)
       => (im' = im /\ sync_pc' = AfterUpdate[sync_pc])]_vars

\* C5: no two instances are bound to the same cloud instance, after any
\* sequence of sync_from calls from a state where none are; and the events of
\* an allocation pass bind each cloud instance to at most one instance, only
\* cloud instances that are observed and were bound to no instance, and only
\* to an instance of the cloud instance's node type.
C5_OneInstancePerCloudInstance ==
    /\ \A i, j \in DOMAIN im.instances :
           (i # j /\ im.instances[i].cloud_instance_id # 0)
               => im.instances[i].cloud_instance_id # im.instances[j].cloud_instance_id
    /\ \A i, j \in DOMAIN updates :
           (i # j /\ updates[i].cloud_instance_id # 0)
               => updates[i].cloud_instance_id # updates[j].cloud_instance_id
    /\ \A i \in DOMAIN updates :
           updates[i].cloud_instance_id # 0 =>
               /\ \A j \in DOMAIN read.instances :
                      read.instances[j].cloud_instance_id # updates[i].cloud_instance_id
               /\ \E k \in DOMAIN observations.non_terminated_cloud_instances :
                      LET cloud_instance == observations.non_terminated_cloud_instances[k]
                      IN /\ cloud_instance.cloud_instance_id = updates[i].cloud_instance_id
                         /\ cloud_instance.node_type
                                = InstanceById(read.instances,
                                               updates[i].instance_id).instance_type

\* C5 at work: an allocation pass has bound two instances of one type to two
\* cloud instances, and the Instance Manager holds the two bindings
C5_Witness ==
    /\ sync_pc = "terminated"
    /\ Len(updates) = 2
    /\ \A i \in DOMAIN updates : updates[i].cloud_instance_id # 0
    /\ Len(im.instances) = 2
    /\ im.instances[1].instance_type = im.instances[2].instance_type
    /\ \A i \in DOMAIN im.instances :
           /\ im.instances[i].status = "ALLOCATED"
           /\ im.instances[i].cloud_instance_id # 0
           /\ read.instances[i].status = "REQUESTED"

====
